---------------------------- MODULE Spec2Model ----------------------------
(***************************************************************************)
(* Model of the grid partitioning and catchment aggregation engine:        *)
(*   grid_dataset.py  GridDataset.split, _make_sub_grid_obj,               *)
(*                    prepare_subgrid, make_gdf_from_gpkg,                 *)
(*                    compute_for_catchment                                *)
(*   attribute.py     Attribute._apply_catchment_to_grid                   *)
(*                                                                         *)
(* Conventions.  Python tuples are 0-based, TLA+ tuples 1-based: a box     *)
(* (minx, miny, maxx, maxy) is <<b[1], b[2], b[3], b[4]>>.  Lengths are    *)
(* integers and every cell_size is even, so that cell_size / 2 is exact.   *)
(* valid_nuts is only ever tested for truthiness, so None and [] are both   *)
(* the empty sequence.                                                     *)
(***************************************************************************)
EXTENDS Integers, Sequences, FiniteSets, TLC

VARIABLES
    \* ---- GridDataset.split -------------------------------------------
    rows,            \* the features of the grid file, in file order
    valid_nuts,      \* self.valid_nuts: the region allow-list, or None
    split_size,      \* arguments of split
    buffer_size,
    cell_size,
    cores,
    sub_grid_filter, \* None, or the set of valid_regions the predicate rejects
    bounds,          \* bounds = self.data.bounds
    x, y,            \* the cursors of the two while loops
    sub_grids,       \* the list of tile descriptors
    pc,              \* where split is
    splits,          \* the list of tiles collected so far
    cursor,          \* serial: index of the next descriptor; pool: of the next result
    dispatched,      \* pool: how many descriptors were handed to a worker
    running,         \* pool: descriptors a worker is materializing now
    outcome,         \* pool: descriptor index -> what its worker produced
    overtaken,       \* history: some worker finished while an earlier descriptor was running
    tiling,          \* history: the descriptors the loops built, before the filter
    materialized,    \* history: descriptors _make_sub_grid_obj was called on
    returned,        \* what split gave its caller: nothing yet, a list, or an error
    \* ---- Attribute._apply_catchment_to_grid ---------------------------
    catchment_objs,  \* the Catchment objects: object id -> its fields
    attr_catchment,  \* attribute -> the object its self.catchment refers to
    grid_catchments, \* grid.catchments: a list of object ids
    geometry_columns,\* catchment name -> how often a geometry column of it was made
    applied,         \* history: the attributes applied to the grid, in order
    \* ---- GridDataset.compute_for_catchment ----------------------------
    data,            \* self.data: the labels of the attribute columns, and the rows
    catchment,       \* the argument: catchment_name, cols, aggs, atts_to_agg
    key_order,       \* the order in which the dict made from set(cols) gives its keys
    repeated_cols,   \* what aggregating a frame with a column selected twice does
    runs,            \* how many times compute_for_catchment was called
    raised,          \* did the last call raise
    data_before,     \* history: self.data before the first call
    data_first,      \* history: self.data after the first call
    \* ---- Attribute.nearest_neighbor, get_nearest, _get_centroid_coords ---
    left_data,       \* the source collection: its type and its geometries
    right_data,      \* the candidate collection: its type and its geometries
    crs,             \* the coordinate reference system argument
    k_neighbors,     \* the rank argument of get_nearest
    nn_call,         \* which of the three functions was called, "" before
    nn_result,       \* what the call gave: a return value or an error
    \* ---- IndustrialBuildings.__init__ ---------------------------------
    ways,            \* the ways of the OSM file, in file order
    handler,         \* the handler whose apply_file runs, then "extend" and "done"
    next_way,        \* index of the next way the running apply_file hands to way()
    industrial_buildings,      \* self.industrial_buildings (the results of handler 1)
    industrial_landuse_zones,  \* the results of the IndustrialLanduseHandler
    buildings_in_zones,        \* the results of the BuildingsInZonesHandler
    \* ---- IndustrialFootprintInCatchment.apply_to ----------------------
    grid_data,       \* grid.data: one row per cell
    grid_crs,        \* grid.data.crs
    catchment_results,  \* the geometry the catchment gives each cell
    osm_buildings,   \* the footprints IndustrialBuildings yields
    buildings_calls, \* the calls of IndustrialBuildings: their bounds and crs
    fp_column,       \* the label of the column apply_to added, <<>> before
    grid_before      \* grid.data when apply_to was called

splitVars == <<rows, valid_nuts, split_size, buffer_size, cell_size, cores,
               sub_grid_filter, bounds, x, y, sub_grids, pc, splits, cursor,
               dispatched, running, outcome, overtaken, tiling, materialized,
               returned>>

catchVars == <<catchment_objs, attr_catchment, grid_catchments,
               geometry_columns, applied>>

aggVars == <<data, catchment, key_order, repeated_cols, runs, raised,
             data_before, data_first>>

nnVars == <<left_data, right_data, crs, k_neighbors, nn_call, nn_result>>

osmVars == <<ways, handler, next_way, industrial_buildings,
             industrial_landuse_zones, buildings_in_zones>>

fpVars == <<grid_data, grid_crs, catchment_results, osm_buildings,
            buildings_calls, fp_column, grid_before>>

\* what the actions of split leave alone
notSplitVars == <<catchVars, aggVars, nnVars, osmVars, fpVars>>

\* what the actions of _apply_catchment_to_grid leave alone
notCatchVars == <<splitVars, aggVars, nnVars, osmVars, fpVars>>

\* what compute_for_catchment leaves alone
notAggVars == <<splitVars, catchVars, nnVars, osmVars, fpVars>>

\* what the nearest-neighbour functions leave alone
notNnVars == <<splitVars, catchVars, aggVars, osmVars, fpVars>>

\* what the handlers of IndustrialBuildings leave alone
notOsmVars == <<splitVars, catchVars, aggVars, nnVars, fpVars>>

\* what IndustrialFootprintInCatchment.apply_to leaves alone
notFpVars == <<splitVars, catchVars, aggVars, nnVars, osmVars>>

vars == <<splitVars, catchVars, aggVars, nnVars, osmVars, fpVars>>

-----------------------------------------------------------------------------
(* Bounds of the model *)

\* side of a grid cell: one cell is CellSide units wide (the 1 km grid, in 500 m units)
CellSide == 2
\* the grid file holds at most MaxCols x MaxRows cells
MaxCols == 3
MaxRows == 2
\* split_size ranges over 1 .. MaxSplit
MaxSplit == 4
\* buffer_size ranges over -1 .. MaxBuffer
MaxBuffer == 2
\* cell_size ranges over the even numbers 0 .. 2 * MaxHalfCell
MaxHalfCell == 2
\* where materialization is followed: a file of at most MaxFileCells cells in
\* one row, and a pool of at most MaxCores workers
MaxFileCells == 3
MaxCores == 2
\* attributes 1 .. MaxAttrs are applied to one grid, MaxApplications times in all
MaxAttrs == 3
MaxApplications == 4
\* compute_for_catchment: a tile of 1 .. MaxAggCells cells in a row is aggregated
\* MaxRuns times
MaxAggCells == 2
MaxRuns == 2
\* nearest_neighbor: up to MaxLeft source and MaxRight candidate geometries
MaxLeft == 2
MaxRight == 2
\* IndustrialBuildings: an OSM file of up to MaxWays ways
MaxWays == 3
\* IndustrialFootprintInCatchment: up to MaxGridCells cells, MaxBuildings footprints
MaxGridCells == 2
MaxBuildings == 3

-----------------------------------------------------------------------------
(* Boxes *)

Min(a, b) == IF a <= b THEN a ELSE b
Max(a, b) == IF a >= b THEN a ELSE b

\* shapely's Polygon([[b0,b1],[b2,b1],[b2,b3],[b0,b3],[b0,b1]]): the rectangle
\* spanned by the four corners, whichever way round they are given
BoxPolygon(b) == <<Min(b[1], b[3]), Min(b[2], b[4]), Max(b[1], b[3]), Max(b[2], b[4])>>

\* geometry.intersects(polygon) for two rectangles: closed sets, touching counts
Intersects(a, b) == /\ a[1] <= b[3] /\ b[1] <= a[3]
                    /\ a[2] <= b[4] /\ b[2] <= a[4]

\* the geometry of a grid row: the square cell with lower-left corner (X_LLC, Y_LLC)
Geometry(row) == <<row.X_LLC, row.Y_LLC, row.X_LLC + CellSide, row.Y_LLC + CellSide>>

RECURSIVE SeqMin(_), SeqMax(_)
SeqMin(s) == IF Len(s) = 1 THEN s[1] ELSE Min(s[1], SeqMin(Tail(s)))
SeqMax(s) == IF Len(s) = 1 THEN s[1] ELSE Max(s[1], SeqMax(Tail(s)))

\* fiona's Collection.bounds: the total extent of the features
DataBounds(rs) ==
    <<SeqMin([i \in 1..Len(rs) |-> Geometry(rs[i])[1]]),
      SeqMin([i \in 1..Len(rs) |-> Geometry(rs[i])[2]]),
      SeqMax([i \in 1..Len(rs) |-> Geometry(rs[i])[3]]),
      SeqMax([i \in 1..Len(rs) |-> Geometry(rs[i])[4]])>>

-----------------------------------------------------------------------------
(* Region codes *)

\* str.split("-")[0]: the characters before the first dash
RECURSIVE SplitDash(_)
SplitDash(s) ==
    IF s = <<>> \/ Head(s) = "-" THEN <<>> ELSE <<Head(s)>> \o SplitDash(Tail(s))

\* The NUTS_0_ID .. NUTS_3_ID properties of the rows of two regions, as the
\* file holds them (strings are sequences of characters)
NorthNuts == << <<"A","A">>, <<"A","A","1">>, <<"A","A","1","1">>,
                <<"A","A","1","1","1","-","x">> >>
SouthNuts == << <<"B","B","-","y">>, <<"B","B","2">>, <<"B","B","2","2">>,
                <<"B","B","2","2","2">> >>
\* a row whose NUTS properties are null: None.split raises AttributeError
NullNuts == <<>>

\* [nuts_0_id, nuts_1_id, nuts_2_id, nuts_3_id] of a row
NutsIds(row) == [k \in 1..4 |-> SplitDash(row.NUTS[k])]

SeqRange(s) == {s[i] : i \in 1..Len(s)}

\* not valid_nuts or any(n in [nuts_0_id, .., nuts_3_id] for n in valid_nuts)
NutsMatch(row, nuts) ==
    \/ nuts = <<>>
    \/ \E n \in SeqRange(nuts) : n \in SeqRange(NutsIds(row))

-----------------------------------------------------------------------------
(* Tiles *)

\* Descriptor with both regions shrunk by a whole cell instead of half a cell
DescriptorWholeCell(px, py, split, buffer, cell, nuts) ==
    [valid_region |-> <<px + cell, py + cell, px + split - cell, py + split - cell>>,
     full_extent  |-> <<px - buffer + cell, py - buffer + cell,
                        px + split + buffer - cell, py + split + buffer - cell>>,
     valid_nuts   |-> nuts,
     grid_path    |-> "grid.gpkg"]

\* one dict of sub_grids
Descriptor(px, py, split, buffer, cell, nuts) ==
    [valid_region |-> <<px + cell \div 2, py + cell \div 2,
                        px + split - cell \div 2, py + split - cell \div 2>>,
     full_extent  |-> <<px - buffer + cell \div 2, py - buffer + cell \div 2,
                        px + split + buffer - cell \div 2,
                        py + split + buffer - cell \div 2>>,
     valid_nuts   |-> nuts,
     grid_path    |-> "grid.gpkg"]

\* prepare_subgrid with the two regions taken from each other's key
prepare_subgrid_swapped(d) ==
    [valid_region |-> d.full_extent,
     full_extent  |-> d.valid_region,
     valid_nuts   |-> d.valid_nuts,
     input_file   |-> d.grid_path,
     complete     |-> FALSE,
     attempts     |-> 0,
     error        |-> "None"]

\* GridDataset().prepare_subgrid(sub_grid_dict)
prepare_subgrid(d) ==
    [valid_region |-> d.valid_region,
     full_extent  |-> d.full_extent,
     valid_nuts   |-> d.valid_nuts,
     input_file   |-> d.grid_path,
     complete     |-> FALSE,
     attempts     |-> 0,
     error        |-> "None"]

\* coll.items(bbox=b): the rows whose extent meets the rectangle b
InBBox(row, b) == Intersects(Geometry(row), BoxPolygon(b))

\* _make_sub_grid_obj over the rows rs still to read: the first row in the
\* valid_region that matches the allow-list makes the tile; a row without NUTS
\* properties raises as soon as it is read; no matching row gives None
\* _make_sub_grid_obj reading the rows of the full_extent
RECURSIVE ScanRowsFullExtent(_, _)
ScanRowsFullExtent(rs, d) ==
    IF rs = <<>> THEN [kind |-> "None"]
    ELSE IF ~InBBox(Head(rs), d.full_extent) THEN ScanRowsFullExtent(Tail(rs), d)
    ELSE IF Head(rs).NUTS = NullNuts THEN [kind |-> "raise"]
    ELSE IF NutsMatch(Head(rs), d.valid_nuts)
         THEN [kind |-> "tile", tile |-> prepare_subgrid(d)]
    ELSE ScanRowsFullExtent(Tail(rs), d)

RECURSIVE ScanRows(_, _)
ScanRows(rs, d) ==
    IF rs = <<>> THEN [kind |-> "None"]
    ELSE IF ~InBBox(Head(rs), d.valid_region) THEN ScanRows(Tail(rs), d)
    ELSE IF Head(rs).NUTS = NullNuts THEN [kind |-> "raise"]
    ELSE IF NutsMatch(Head(rs), d.valid_nuts)
         THEN [kind |-> "tile", tile |-> prepare_subgrid(d)]
    ELSE ScanRows(Tail(rs), d)

make_sub_grid_obj(d) == ScanRows(rows, d)

\* make_gdf_from_gpkg: self.data, the rows read with bbox=self.full_extent
TileData(tile) == {i \in 1..Len(rows) : InBBox(rows[i], tile.full_extent)}

\* make_gdf_from_gpkg: the geometric half of valid_filter
IntersectsValidRegion(tile, i) ==
    Intersects(Geometry(rows[i]), BoxPolygon(tile.valid_region))

\* make_gdf_from_gpkg: the allow-list half of valid_filter, the level of a
\* code being chosen by its length (2, 3, 4, 5 characters)
IsInNuts(tile, i) ==
    \E k \in 1..4 :
        SplitDash(rows[i].NUTS[k]) \in {n \in SeqRange(tile.valid_nuts) : Len(n) = k + 1}

\* make_gdf_from_gpkg: the rows of self.data for which valid_filter is True
valid_filter(tile) ==
    {i \in TileData(tile) :
        /\ IntersectsValidRegion(tile, i)
        /\ (tile.valid_nuts # <<>> => IsInNuts(tile, i))}

-----------------------------------------------------------------------------
(* GridDataset.split *)

\* a grid file of w x h cells with lower-left corner (ox, oy), written row by
\* row; nuts[i] is the NUTS properties of the i-th feature
GridFile(ox, oy, w, h, nuts) ==
    [i \in 1..(w * h) |->
        [GRD_ID |-> i,
         X_LLC  |-> ox + CellSide * ((i - 1) % w),
         Y_LLC  |-> oy + CellSide * ((i - 1) \div w),
         NUTS   |-> nuts[i]]]

\* the state in which split(split_size, buffer_size, cores, sub_grid_filter,
\* cell_size) is entered on a grid whose file holds the rows rs
SplitEntry(rs, nuts, split, buffer, cell, n_cores, filter) ==
    /\ rows = rs
    /\ valid_nuts = nuts
    /\ split_size = split
    /\ buffer_size = buffer
    /\ cell_size = cell
    /\ cores = n_cores
    /\ sub_grid_filter = filter
    /\ bounds = DataBounds(rs)
    /\ x = DataBounds(rs)[1]
    /\ y = DataBounds(rs)[2]
    /\ sub_grids = <<>>
    /\ pc = "tiling"
    /\ splits = <<>>
    /\ cursor = 1
    /\ dispatched = 0
    /\ running = {}
    /\ outcome = <<>>
    /\ overtaken = FALSE
    /\ tiling = <<>>
    /\ materialized = {}
    /\ returned = [kind |-> "nothing"]

NoFilter == [given |-> FALSE, rejects |-> {}]

\* sub_grid_filter(s): the caller's predicate, here "s is not one of the tiles
\* already completed"
Accepts(filter, s) == s.valid_region \notin filter.rejects

\* lines 212-223: the body of the inner loop
SplitAppend ==
    /\ pc = "tiling"
    /\ x < bounds[3]
    /\ y < bounds[4]
    /\ sub_grids' = Append(sub_grids,
                           Descriptor(x, y, split_size, buffer_size, cell_size, valid_nuts))
    /\ y' = y + split_size
    /\ UNCHANGED <<rows, valid_nuts, split_size, buffer_size, cell_size, cores,
                   sub_grid_filter, bounds, x, pc, splits, cursor, dispatched,
                   running, outcome, overtaken, tiling, materialized, returned>>
    /\ UNCHANGED notSplitVars

\* lines 224-225: the inner loop is over, the outer loop moves on
SplitNextColumn ==
    /\ pc = "tiling"
    /\ x < bounds[3]
    /\ ~(y < bounds[4])
    /\ x' = x + split_size
    /\ y' = bounds[2]
    /\ UNCHANGED <<rows, valid_nuts, split_size, buffer_size, cell_size, cores,
                   sub_grid_filter, bounds, sub_grids, pc, splits, cursor,
                   dispatched, running, outcome, overtaken, tiling, materialized, returned>>
    /\ UNCHANGED notSplitVars

\* lines 226-227: the outer loop is over
SplitTiled ==
    /\ pc = "tiling"
    /\ ~(x < bounds[3])
    /\ tiling' = sub_grids
    /\ pc' = "filter"
    /\ UNCHANGED <<rows, valid_nuts, split_size, buffer_size, cell_size, cores,
                   sub_grid_filter, bounds, x, y, sub_grids, splits, cursor,
                   dispatched, running, outcome, overtaken, materialized, returned>>
    /\ UNCHANGED notSplitVars

\* lines 228-233 with the predicate left unused
SplitFilterIgnored ==
    /\ pc = "filter"
    /\ pc' = IF cores = 1 THEN "serial" ELSE "pool"
    /\ UNCHANGED <<rows, valid_nuts, split_size, buffer_size, cell_size, cores,
                   sub_grid_filter, bounds, x, y, sub_grids, splits, cursor,
                   dispatched, running, outcome, overtaken, tiling, materialized,
                   returned>>
    /\ UNCHANGED notSplitVars

\* lines 228-233: the filter, then the choice between the loop and the pool
SplitFilter ==
    /\ pc = "filter"
    /\ sub_grids' = IF sub_grid_filter.given
                    THEN SelectSeq(sub_grids, LAMBDA s : Accepts(sub_grid_filter, s))
                    ELSE sub_grids
    /\ pc' = IF cores = 1 THEN "serial" ELSE "pool"
    /\ UNCHANGED <<rows, valid_nuts, split_size, buffer_size, cell_size, cores,
                   sub_grid_filter, bounds, x, y, splits, cursor, dispatched,
                   running, outcome, overtaken, tiling, materialized, returned>>
    /\ UNCHANGED notSplitVars

\* if split: splits.append(split)
Collected(list, result) ==
    IF result.kind = "tile" THEN Append(list, result.tile) ELSE list

\* lines 234-237: one turn of the serial loop; an exception leaves split
SerialStep ==
    /\ pc = "serial"
    /\ cursor <= Len(sub_grids)
    /\ materialized' = materialized \cup {sub_grids[cursor]}
    /\ LET split == make_sub_grid_obj(sub_grids[cursor]) IN
        IF split.kind = "raise"
        THEN /\ pc' = "raised"
             /\ returned' = [kind |-> "error"]
             /\ UNCHANGED <<splits, cursor>>
        ELSE /\ splits' = Collected(splits, split)
             /\ cursor' = cursor + 1
             /\ UNCHANGED <<pc, returned>>
    /\ UNCHANGED <<rows, valid_nuts, split_size, buffer_size, cell_size, cores,
                   sub_grid_filter, bounds, x, y, sub_grids, dispatched, running,
                   outcome, overtaken, tiling>>
    /\ UNCHANGED notSplitVars

\* line 250 after the serial loop
SerialReturn ==
    /\ pc = "serial"
    /\ cursor > Len(sub_grids)
    /\ pc' = "returned"
    /\ returned' = [kind |-> "list", tiles |-> splits]
    /\ UNCHANGED <<rows, valid_nuts, split_size, buffer_size, cell_size, cores,
                   sub_grid_filter, bounds, x, y, sub_grids, splits, cursor,
                   dispatched, running, outcome, overtaken, tiling, materialized>>
    /\ UNCHANGED notSplitVars

\* pool.map, line 240: the pool hands the descriptors to its workers in order,
\* to at most max_workers=cores of them at a time
PoolStart ==
    /\ pc = "pool"
    /\ dispatched < Len(sub_grids)
    /\ Cardinality(running) < cores
    /\ dispatched' = dispatched + 1
    /\ running' = running \cup {dispatched + 1}
    /\ materialized' = materialized \cup {sub_grids[dispatched + 1]}
    /\ UNCHANGED <<rows, valid_nuts, split_size, buffer_size, cell_size, cores,
                   sub_grid_filter, bounds, x, y, sub_grids, pc, splits, cursor,
                   outcome, overtaken, tiling, returned>>
    /\ UNCHANGED notSplitVars

\* PoolFinish with the results kept in the order the workers finish
PoolFinishUnordered(i) ==
    /\ pc = "pool"
    /\ i \in running
    /\ running' = running \ {i}
    /\ outcome' = [j \in DOMAIN outcome \cup {Cardinality(DOMAIN outcome) + 1} |->
                      IF j \in DOMAIN outcome THEN outcome[j]
                      ELSE make_sub_grid_obj(sub_grids[i])]
    /\ overtaken' = (overtaken \/ \E j \in running : j < i)
    /\ UNCHANGED <<rows, valid_nuts, split_size, buffer_size, cell_size, cores,
                   sub_grid_filter, bounds, x, y, sub_grids, pc, splits, cursor,
                   dispatched, tiling, materialized, returned>>
    /\ UNCHANGED notSplitVars

\* a worker finishes _make_sub_grid_obj on descriptor i: workers finish in any order
PoolFinish(i) ==
    /\ pc = "pool"
    /\ i \in running
    /\ running' = running \ {i}
    /\ outcome' = [j \in DOMAIN outcome \cup {i} |->
                      IF j = i THEN make_sub_grid_obj(sub_grids[i]) ELSE outcome[j]]
    /\ overtaken' = (overtaken \/ \E j \in running : j < i)
    /\ UNCHANGED <<rows, valid_nuts, split_size, buffer_size, cell_size, cores,
                   sub_grid_filter, bounds, x, y, sub_grids, pc, splits, cursor,
                   dispatched, tiling, materialized, returned>>
    /\ UNCHANGED notSplitVars

\* PoolCollect with every exception swallowed, not only StopIteration
PoolCollectSwallow ==
    /\ pc = "pool"
    /\ cursor <= Len(sub_grids)
    /\ cursor \in DOMAIN outcome
    /\ splits' = Collected(splits, outcome[cursor])
    /\ cursor' = cursor + 1
    /\ UNCHANGED <<rows, valid_nuts, split_size, buffer_size, cell_size, cores,
                   sub_grid_filter, bounds, x, y, sub_grids, pc, dispatched, running,
                   outcome, overtaken, tiling, materialized, returned>>
    /\ UNCHANGED notSplitVars

\* lines 242-247: next(iterator) gives the results in the order of the
\* descriptors, waiting for the next one; a result that is an exception is
\* raised here, and only StopIteration is caught
PoolCollect ==
    /\ pc = "pool"
    /\ cursor <= Len(sub_grids)
    /\ cursor \in DOMAIN outcome
    /\ IF outcome[cursor].kind = "raise"
       THEN /\ pc' = "raised"
            /\ returned' = [kind |-> "error"]
            /\ UNCHANGED <<splits, cursor>>
       ELSE /\ splits' = Collected(splits, outcome[cursor])
            /\ cursor' = cursor + 1
            /\ UNCHANGED <<pc, returned>>
    /\ UNCHANGED <<rows, valid_nuts, split_size, buffer_size, cell_size, cores,
                   sub_grid_filter, bounds, x, y, sub_grids, dispatched, running,
                   outcome, overtaken, tiling, materialized>>
    /\ UNCHANGED notSplitVars

\* lines 248-250: StopIteration, then return splits
PoolReturn ==
    /\ pc = "pool"
    /\ cursor > Len(sub_grids)
    /\ pc' = "returned"
    /\ returned' = [kind |-> "list", tiles |-> splits]
    /\ UNCHANGED <<rows, valid_nuts, split_size, buffer_size, cell_size, cores,
                   sub_grid_filter, bounds, x, y, sub_grids, splits, cursor,
                   dispatched, running, outcome, overtaken, tiling, materialized>>
    /\ UNCHANGED notSplitVars


-----------------------------------------------------------------------------
(* The state of each part while another part runs *)

\* the catchment names in use
CatchmentNames == {"20min_drive", "50min_drive"}

\* no attribute has been made: the state of these variables while split runs
CatchIdle ==
    /\ catchment_objs = <<>>
    /\ attr_catchment = <<>>
    /\ grid_catchments = <<>>
    /\ geometry_columns = [n \in CatchmentNames |-> 0]
    /\ applied = <<>>

\* split is not running: the state of its variables while attributes are applied
SplitIdle(at) ==
    /\ rows = <<>>
    /\ valid_nuts = <<>>
    /\ split_size = 0
    /\ buffer_size = 0
    /\ cell_size = 0
    /\ cores = 0
    /\ sub_grid_filter = NoFilter
    /\ bounds = <<0, 0, 0, 0>>
    /\ x = 0
    /\ y = 0
    /\ sub_grids = <<>>
    /\ pc = at
    /\ splits = <<>>
    /\ cursor = 1
    /\ dispatched = 0
    /\ running = {}
    /\ outcome = <<>>
    /\ overtaken = FALSE
    /\ tiling = <<>>
    /\ materialized = {}
    /\ returned = [kind |-> "nothing"]

\* compute_for_catchment was not called and there is no tile
AggIdle ==
    /\ data = [columns |-> <<>>, rows |-> <<>>]
    /\ catchment = [catchment_name |-> "", cols |-> <<>>, aggs |-> <<>>,
                    atts_to_agg |-> <<>>]
    /\ key_order = <<>>
    /\ repeated_cols = "raise"
    /\ runs = 0
    /\ raised = FALSE
    /\ data_before = data
    /\ data_first = data

\* no nearest-neighbour function was called and there are no collections
NearestIdle ==
    /\ left_data = [type |-> "list", geoms |-> <<>>]
    /\ right_data = [type |-> "list", geoms |-> <<>>]
    /\ crs = 3035
    /\ k_neighbors = 1
    /\ nn_call = ""
    /\ nn_result = [kind |-> "nothing"]

\* no IndustrialBuildings object is being made and there is no OSM file
OsmIdle ==
    /\ ways = <<>>
    /\ handler = "none"
    /\ next_way = 1
    /\ industrial_buildings = <<>>
    /\ industrial_landuse_zones = <<>>
    /\ buildings_in_zones = <<>>

\* apply_to of IndustrialFootprintInCatchment is not called and has no grid
FootprintIdle ==
    /\ grid_data = <<>>
    /\ grid_crs = 3035
    /\ catchment_results = <<>>
    /\ osm_buildings = <<>>
    /\ buildings_calls = <<>>
    /\ fp_column = <<>>
    /\ grid_before = <<>>

-----------------------------------------------------------------------------
(* Attribute._apply_catchment_to_grid *)

\* the cell -> geometry entries of the catchment of attribute a: the cells a and
\* a + 1, each with a geometry of a's own
EntriesOf(a) == [c \in {a, a + 1} |-> a]

\* Catchment.append(other): the entries of other are unioned into this
\* catchment by cell, the incoming entry winning where both have one
CatchmentAppend(this, other) ==
    [this EXCEPT !.cells = [c \in DOMAIN this.cells \cup DOMAIN other.cells |->
                               IF c \in DOMAIN other.cells THEN other.cells[c]
                               ELSE this.cells[c]]]

\* Catchment.apply_catchment(grid): a geometry column named after the
\* catchment is made in grid.data
ApplyCatchment(columns, name) == [columns EXCEPT ![name] = @ + 1]

\* make_fresh_catchment: its body is pass, so the objects and the object that
\* self.catchment refers to are afterwards what they were
make_fresh_catchment(a) == [objs |-> catchment_objs, mine |-> attr_catchment[a]]

\* next((c for c in grid.catchments if c.catchment_name == name), None):
\* the first catchment of the grid with that name, 0 for None
ExistingCatchment(objs, name) ==
    LET hits == {k \in 1..Len(grid_catchments) :
                    objs[grid_catchments[k]].catchment_name = name}
    IN  IF hits = {} THEN 0
        ELSE grid_catchments[CHOOSE k \in hits : \A h \in hits : k <= h]

\* _apply_catchment_to_grid without the look-up of an existing catchment
ApplyCatchmentToGridNoLookup(a) ==
    /\ pc = "catchments"
    /\ Len(applied) < MaxApplications
    /\ LET fresh == make_fresh_catchment(a)
           name  == fresh.objs[fresh.mine].catchment_name
       IN  /\ catchment_objs' = fresh.objs
           /\ attr_catchment' = [attr_catchment EXCEPT ![a] = fresh.mine]
           /\ geometry_columns' = ApplyCatchment(geometry_columns, name)
           /\ grid_catchments' = Append(grid_catchments, fresh.mine)
    /\ applied' = Append(applied, a)
    /\ UNCHANGED notCatchVars

\* attribute a runs self._apply_catchment_to_grid(grid)
ApplyCatchmentToGrid(a) ==
    /\ pc = "catchments"
    /\ Len(applied) < MaxApplications
    /\ LET fresh    == make_fresh_catchment(a)
           name     == fresh.objs[fresh.mine].catchment_name
           existing == ExistingCatchment(fresh.objs, name)
       IN  IF existing # 0
           THEN /\ catchment_objs' =
                     [fresh.objs EXCEPT ![existing] =
                         CatchmentAppend(@, fresh.objs[fresh.mine])]
                /\ attr_catchment' = [attr_catchment EXCEPT ![a] = existing]
                /\ UNCHANGED <<geometry_columns, grid_catchments>>
           ELSE /\ catchment_objs' = fresh.objs
                /\ attr_catchment' = [attr_catchment EXCEPT ![a] = fresh.mine]
                /\ geometry_columns' = ApplyCatchment(geometry_columns, name)
                /\ grid_catchments' = Append(grid_catchments, fresh.mine)
    /\ applied' = Append(applied, a)
    /\ UNCHANGED notCatchVars

\* attributes 1 .. n, each with a catchment of its own, and a grid with no
\* catchment yet
InitCatchment ==
    /\ SplitIdle("catchments")
    /\ AggIdle
    /\ NearestIdle
    /\ OsmIdle
    /\ FootprintIdle
    /\ \E n \in 2..MaxAttrs :
        \E name \in [1..n -> CatchmentNames] :
            /\ catchment_objs = [a \in 1..n |->
                                    [catchment_name |-> name[a],
                                     cells |-> EntriesOf(a)]]
            /\ attr_catchment = [a \in 1..n |-> a]
    /\ grid_catchments = <<>>
    /\ geometry_columns = [n \in CatchmentNames |-> 0]
    /\ applied = <<>>

NextCatchment == \E a \in DOMAIN attr_catchment : ApplyCatchmentToGrid(a)

SpecCatchment == InitCatchment /\ [][NextCatchment]_vars

-----------------------------------------------------------------------------
(* GridDataset.compute_for_catchment *)

\* The tile is a row of cells of side CellSide: cell i is the square from
\* CellSide * (i - 1) to CellSide * i and all cells share their y extent, so a
\* geometry is given by its x extent lo .. hi.  A row of self.data has the
\* fields GRD_ID, centroid, valid (its entry of self.valid_filter), geom (its
\* entry of the column named catchment.catchment_name), the source columns, and
\* atts: its values in the attribute columns, in the order of data.columns.
\* Logging is not part of the state, so the warning about catchments that
\* reach beyond full_extent is left out.

\* a missing value (NaN) and a number
Null == <<>>
Val(v) == <<v>>

SourceCols == {"TOT_P_2011", "X_LLC"}
Operators == {"sum", "max", "count"}

\* the catchment geometries of cell i in a tile of n cells: the cell's centroid,
\* the cell's square, a box around the whole tile, and a box whose edges pass
\* through the centroids of cell i and of its right neighbour
GeometryKinds == {"centroid", "cell", "tile", "edge"}

CatchmentGeometry(kind, i, n) ==
    LET c == CellSide * i - (CellSide \div 2)
    IN  CASE kind = "centroid" -> [geom_type |-> "Point",   lo |-> c, hi |-> c]
          [] kind = "cell" -> [geom_type |-> "Polygon", lo |-> c - (CellSide \div 2),
                                                        hi |-> c + (CellSide \div 2)]
          [] kind = "tile" -> [geom_type |-> "Polygon", lo |-> 0 - 1,
                                                        hi |-> CellSide * n + 1]
          [] kind = "edge" -> [geom_type |-> "Polygon", lo |-> c, hi |-> c + CellSide]

\* geometry.buffer(0): a point stays without interior
BufferZero(g, distance) ==
    [geom_type |-> "Polygon", lo |-> g.lo, hi |-> g.hi]

\* geometry.buffer(distance)
Buffer(g, distance) ==
    [geom_type |-> "Polygon", lo |-> g.lo - distance, hi |-> g.hi + distance]

\* catchments.loc[catchments.geom_type == 'Point', name] = ....buffer(1)
BufferPoints(g) == IF g.geom_type = "Point" THEN Buffer(g, 1) ELSE g

\* op='contains' for a point at x = c: in the interior, never on the boundary
Contains(g, c) ==
    IF g.geom_type = "Point" THEN g.lo = c ELSE g.lo < c /\ c < g.hi

\* the elements of seq at the indexes in S, in order
Pick(seq, S) ==
    LET F[k \in 0..Len(seq)] ==
            IF k = 0 THEN <<>>
            ELSE IF k \in S THEN Append(F[k - 1], seq[k]) ELSE F[k - 1]
    IN  F[Len(seq)]

RECURSIVE Flatten(_)
Flatten(seqs) == IF seqs = <<>> THEN <<>> ELSE Head(seqs) \o Flatten(Tail(seqs))

IndexesOf(seq, e) == {i \in 1..Len(seq) : seq[i] = e}

HasRepeats(seq) == Cardinality(SeqRange(seq)) < Len(seq)

\* aggregations = {c: [] for c in set(cols)}, then aggs[i] appended to the list
\* of cols[i]
Aggregations(cat) ==
    [c \in SeqRange(cat.cols) |-> Pick(cat.aggs, IndexesOf(cat.cols, c))]

\* the rows of gpd.sjoin(catchments, self.data[cols + ['centroid']],
\* how='inner', op='contains') that carry the GRD_ID of row k: the rows of
\* self.data whose centroid the buffered catchment geometry of row k contains;
\* only rows of self.data[self.valid_filter] are on the left
Joined(d, k) ==
    IF d.rows[k].valid
    THEN {j \in 1..Len(d.rows) : Contains(BufferPoints(d.rows[k].geom), d.rows[j].centroid)}
    ELSE {}

RECURSIVE SumOf(_, _, _)
SumOf(d, col, J) ==
    IF J = {} THEN 0
    ELSE LET j == CHOOSE e \in J : TRUE
         IN  d.rows[j][col] + SumOf(d, col, J \ {j})

\* one aggregation operator over the values of col in the rows J
Aggregate(op, d, col, J) ==
    CASE op = "sum"   -> SumOf(d, col, J)
      [] op = "max"   -> CHOOSE m \in {d.rows[j][col] : j \in J} :
                             \A j \in J : d.rows[j][col] <= m
      [] op = "count" -> Cardinality(J)

\* the columns of .groupby("GRD_ID").agg(aggregations) after GRD_ID: the keys
\* in the order the dict gives them, and under each key one column per
\* operator of its list for every column of that name in the joined frame
\* (self.data[cols + ['centroid']] has a column once for each time cols names it)
AggColumns(cat, order) ==
    LET ops == Aggregations(cat)
        under(c) == Flatten([copy \in 1..Cardinality(IndexesOf(cat.cols, c)) |->
                                [o \in 1..Len(ops[c]) |-> [col |-> c, agg |-> ops[c][o]]]])
    IN  Flatten([k \in 1..Len(order) |-> under(order[k])])

\* r.rename(columns=dict(zip(cols, atts_to_agg))): the dict keeps, for a column
\* name, the last attribute name zipped with it
Rename(cat, col) ==
    cat.atts_to_agg[CHOOSE i \in IndexesOf(cat.cols, col) :
                        \A h \in IndexesOf(cat.cols, col) : h <= i]

\* r: the groups (one per GRD_ID with joined rows), the renamed columns after
\* droplevel(1), and each group's values
GroupByAgg(d, cat, order) ==
    LET columns == AggColumns(cat, order)
        ids     == {d.rows[k].GRD_ID : k \in {h \in 1..Len(d.rows) : Joined(d, h) # {}}}
        rowOf(id) == CHOOSE k \in 1..Len(d.rows) : d.rows[k].GRD_ID = id
    IN  [columns |-> [c \in 1..Len(columns) |-> Rename(cat, columns[c].col)],
         ids     |-> ids,
         vals    |-> [id \in ids |->
                        [c \in 1..Len(columns) |->
                            Val(Aggregate(columns[c].agg, d, columns[c].col,
                                          Joined(d, rowOf(id))))]]]

\* self.data.drop(labels, axis=1, errors='ignore') kept from dropping anything
DropNothing(d, labels) == d

\* self.data.drop(labels, axis=1, errors='ignore', inplace=True)
Drop(d, labels) ==
    LET keep == {c \in 1..Len(d.columns) : d.columns[c] \notin labels}
    IN  [columns |-> Pick(d.columns, keep),
         rows    |-> [k \in 1..Len(d.rows) |->
                        [d.rows[k] EXCEPT !.atts = Pick(@, keep)]]]

\* merge gives a column name that is on both sides the suffix _x on the left
\* and _y on the right
Suffixed(columns, both, suffix) ==
    [c \in 1..Len(columns) |->
        IF columns[c] \in both THEN Append(columns[c], suffix) ELSE columns[c]]

\* left.merge(r, how='inner', on='GRD_ID')
MergeInner(left, r) ==
    LET both == SeqRange(left.columns) \cap SeqRange(r.columns)
        kept == SelectSeq(left.rows, LAMBDA row : row.GRD_ID \in r.ids)
    IN  [columns |-> Suffixed(left.columns, both, "_x") \o Suffixed(r.columns, both, "_y"),
         rows    |-> [k \in 1..Len(kept) |->
                        [kept[k] EXCEPT !.atts = @ \o r.vals[kept[k].GRD_ID]]]]

\* left.merge(r, how='left', on='GRD_ID'): every row of left once (r has one
\* row per GRD_ID), with missing values where r has no row of its GRD_ID
MergeLeft(left, r) ==
    LET both == SeqRange(left.columns) \cap SeqRange(r.columns)
    IN  [columns |-> Suffixed(left.columns, both, "_x") \o Suffixed(r.columns, both, "_y"),
         rows    |-> [k \in 1..Len(left.rows) |->
                        [left.rows[k] EXCEPT !.atts =
                            @ \o (IF left.rows[k].GRD_ID \in r.ids
                                  THEN r.vals[left.rows[k].GRD_ID]
                                  ELSE [c \in 1..Len(r.columns) |-> Null])]]]

\* compute_for_catchment(catchment) on self.data = d.  Aggregating a joined
\* frame that has a column twice depends on the pandas in use: it raises, or
\* it aggregates every copy.
compute_for_catchment(d, cat) ==
    IF HasRepeats(cat.cols) /\ repeated_cols = "raise"
    THEN [data |-> d, raised |-> TRUE]
    ELSE [data   |-> MergeLeft(Drop(d, SeqRange(cat.atts_to_agg)),
                               GroupByAgg(d, cat, key_order)),
          raised |-> FALSE]

\* a caller runs grid.compute_for_catchment(catchment)
ComputeForCatchment ==
    /\ pc = "aggregate"
    /\ runs < MaxRuns
    /\ LET result == compute_for_catchment(data, catchment)
       IN  /\ data' = result.data
           /\ raised' = result.raised
           /\ data_first' = IF runs = 0 THEN result.data ELSE data_first
    /\ runs' = runs + 1
    /\ UNCHANGED <<catchment, key_order, repeated_cols, data_before>>
    /\ UNCHANGED notAggVars

\* atts_to_agg: the name of a result column combines the source column and the
\* catchment name
AttsToAgg(cols, name) == [i \in 1..Len(cols) |-> <<cols[i], name>>]

\* the orders in which a dict can give the keys S
Orders(S) ==
    {o \in [1..Cardinality(S) -> S] : \A i, j \in 1..Cardinality(S) : i # j => o[i] # o[j]}

\* a tile of n cells, each with a catchment geometry and possibly outside the
\* valid region, that carries one attribute column of another attribute; a
\* catchment with a recipe of one or two (column, operator) pairs
InitAggregate ==
    /\ SplitIdle("aggregate")
    /\ CatchIdle
    /\ NearestIdle
    /\ OsmIdle
    /\ FootprintIdle
    /\ \E n \in 1..MaxAggCells :
        \E valid \in [1..n -> BOOLEAN] :
        \E kind \in [1..n -> GeometryKinds] :
            data = [columns |-> << <<"industrial_footprint">> >>,
                    rows |-> [i \in 1..n |->
                                 [GRD_ID |-> i,
                                  centroid |-> CellSide * i - (CellSide \div 2),
                                  valid |-> valid[i],
                                  geom |-> CatchmentGeometry(kind[i], i, n),
                                  TOT_P_2011 |-> i % 3,
                                  X_LLC |-> CellSide * (i - 1),
                                  atts |-> <<Val(i)>>]]]
    /\ \E len \in {1, 2} :
        \E cols \in [1..len -> SourceCols] :
        \E aggs \in [1..len -> Operators] :
            /\ catchment = [catchment_name |-> "20min_drive", cols |-> cols,
                            aggs |-> aggs,
                            atts_to_agg |-> AttsToAgg(cols, "20min_drive")]
            /\ key_order \in Orders(SeqRange(cols))
            /\ repeated_cols \in (IF HasRepeats(cols) THEN {"raise", "per_copy"}
                                  ELSE {"per_copy"})
    /\ runs = 0
    /\ raised = FALSE
    /\ data_before = data
    /\ data_first = data

NextAggregate == ComputeForCatchment

SpecAggregate == InitAggregate /\ [][NextAggregate]_vars

-----------------------------------------------------------------------------
(* Attribute.nearest_neighbor, get_nearest and _get_centroid_coords *)

\* A geometry is a box x1 .. x2 by y1 .. y2, a point when the corners agree.
\* A coordinate pair [x, y, unit] stands for (x, y) when unit is "crs" and for
\* (x * pi / 180, y * pi / 180) when unit is "rad".  A distance
\* [inf, sq, unit, times] stands for infinity when inf holds, and otherwise
\* for times * sqrt(sq), times pi / 180 when unit is "rad".  Python's indexes
\* from 0 are the model's indexes from 1.

PointAt(px, py) == [x1 |-> px, y1 |-> py, x2 |-> px, y2 |-> py]

\* the source geometries: the points (0, 0) and (0, 90)
Sources == {PointAt(0, 0), PointAt(0, 90)}

\* the candidate geometries: the point (0, 1), a square with centroid (3, 3),
\* and the points (180, 0) and (180, 90)
Candidates == {PointAt(0, 1), [x1 |-> 2, y1 |-> 2, x2 |-> 4, y2 |-> 4],
               PointAt(180, 0), PointAt(180, 90)}

\* the types a collection can have; only the first two are supported
DataTypes == {"GeoDataFrame", "list", "tuple"}

\* the projected and the geographic CRS, and one that is neither
CrsCodes == {3035, 4326, 27700}

earth_radius == 6371000

NaN == [nan |-> TRUE]
Inf == [inf |-> TRUE, sq |-> 0, unit |-> "crs", times |-> 1]

\* geom.centroid
Centroid(g) == [x |-> (g.x1 + g.x2) \div 2, y |-> (g.y1 + g.y2) \div 2]

\* _get_centroid_coords accepting every crs as a projected one
get_centroid_coords_any_crs(d, c) ==
    IF d.type \in {"GeoDataFrame", "list"}
    THEN [kind |-> "return",
          coords |-> [i \in 1..Len(d.geoms) |->
                         [x |-> Centroid(d.geoms[i]).x, y |-> Centroid(d.geoms[i]).y,
                          unit |-> IF c = 4326 THEN "rad" ELSE "crs"]]]
    ELSE [kind |-> "raise", error |-> "TypeError"]

\* _get_centroid_coords(data, crs): both supported types take the same
\* branches on crs
get_centroid_coords(d, c) ==
    IF d.type \in {"GeoDataFrame", "list"}
    THEN IF c = 3035
         THEN [kind |-> "return",
               coords |-> [i \in 1..Len(d.geoms) |->
                              [x |-> Centroid(d.geoms[i]).x, y |-> Centroid(d.geoms[i]).y,
                               unit |-> "crs"]]]
         ELSE IF c = 4326
         THEN [kind |-> "return",
               coords |-> [i \in 1..Len(d.geoms) |->
                              [x |-> Centroid(d.geoms[i]).x, y |-> Centroid(d.geoms[i]).y,
                               unit |-> "rad"]]]
         ELSE [kind |-> "raise", error |-> "TypeError"]
    ELSE [kind |-> "raise", error |-> "TypeError"]

\* the square of the BallTree's metric, the Euclidean distance of the
\* coordinates as given (minkowski with p = 2 is the default metric)
Dist2(p, q) == (p.x - q.x) * (p.x - q.x) + (p.y - q.y) * (p.y - q.y)

\* tree.query(p, k): the rows of indices it can give for one source point: k
\* different candidates, nearest first, none nearer left out; candidates at
\* equal distance come in any order
QueryRows(p, cand, k) ==
    {r \in [1..k -> 1..Len(cand)] :
        /\ \A i, j \in 1..k : i < j =>
              (r[i] # r[j] /\ Dist2(p, cand[r[i]]) <= Dist2(p, cand[r[j]]))
        /\ \A c \in 1..Len(cand) :
              (\A i \in 1..k : r[i] # c) => Dist2(p, cand[r[k]]) <= Dist2(p, cand[c])}

\* get_nearest(src_points, candidates, k_neighbors): what it can give.
\* BallTree raises ValueError without candidates, and query without source
\* points or with k above the number of candidates.  After the transpose
\* indices[0] and distances[0] are the first column of the query: the first
\* entry of every source point's row.
get_nearest(src, cand, k) ==
    IF Len(cand) = 0 \/ Len(src) = 0 \/ k > Len(cand)
    THEN {[kind |-> "raise", error |-> "ValueError"]}
    ELSE {[kind    |-> "return",
           closest |-> [i \in 1..Len(src) |-> found[i][1]],
           dist    |-> [i \in 1..Len(src) |->
                          [inf |-> FALSE, sq |-> Dist2(src[i], cand[found[i][1]]),
                           unit |-> src[i].unit, times |-> 1]]] :
          found \in {f \in [1..Len(src) -> UNION {QueryRows(src[i], cand, k) : i \in 1..Len(src)}] :
                       \A i \in 1..Len(src) : f[i] \in QueryRows(src[i], cand, k)}}

\* nearest_neighbor without its test for an empty right_data
nearest_neighbor_unguarded(left, right, c) ==
    LET left_coords  == get_centroid_coords(left, c)
        right_coords == get_centroid_coords(right, c)
    IN  IF left_coords.kind = "raise" THEN {left_coords}
        ELSE IF right_coords.kind = "raise" THEN {right_coords}
        ELSE {IF o.kind = "raise" THEN o
              ELSE [kind |-> "return",
                    closest_points |-> [i \in 1..Len(o.closest) |-> right.geoms[o.closest[i]]],
                    dist |-> IF c = 4326
                             THEN [i \in 1..Len(o.dist) |->
                                      [o.dist[i] EXCEPT !.times = @ * earth_radius]]
                             ELSE o.dist] :
              o \in get_nearest(left_coords.coords, right_coords.coords, 1)}

\* nearest_neighbor(left_data, right_data, crs): what it can give
nearest_neighbor(left, right, c) ==
    IF Len(right.geoms) = 0
    THEN {[kind |-> "return",
           closest_points |-> [i \in 1..Len(left.geoms) |-> NaN],
           dist |-> [i \in 1..Len(left.geoms) |-> Inf]]}
    ELSE LET left_coords  == get_centroid_coords(left, c)
             right_coords == get_centroid_coords(right, c)
         IN  IF left_coords.kind = "raise" THEN {left_coords}
             ELSE IF right_coords.kind = "raise" THEN {right_coords}
             ELSE {IF o.kind = "raise" THEN o
                   ELSE [kind |-> "return",
                         closest_points |-> [i \in 1..Len(o.closest) |->
                                                right.geoms[o.closest[i]]],
                         dist |-> IF c = 4326
                                  THEN [i \in 1..Len(o.dist) |->
                                           [o.dist[i] EXCEPT !.times = @ * earth_radius]]
                                  ELSE o.dist] :
                   o \in get_nearest(left_coords.coords, right_coords.coords, 1)}

\* the centroids of a collection as plain coordinate pairs
PlainCoords(d) ==
    [i \in 1..Len(d.geoms) |->
        [x |-> Centroid(d.geoms[i]).x, y |-> Centroid(d.geoms[i]).y, unit |-> "crs"]]

\* a caller runs self.nearest_neighbor(left_data, right_data, crs)
CallNearestNeighbor ==
    /\ pc = "nearest"
    /\ nn_call = ""
    /\ nn_result' \in nearest_neighbor(left_data, right_data, crs)
    /\ nn_call' = "nearest_neighbor"
    /\ UNCHANGED <<left_data, right_data, crs, k_neighbors>>
    /\ UNCHANGED notNnVars

\* a caller runs Attribute._get_centroid_coords(left_data, crs)
CallGetCentroidCoords ==
    /\ pc = "nearest"
    /\ nn_call = ""
    /\ nn_result' = get_centroid_coords(left_data, crs)
    /\ nn_call' = "_get_centroid_coords"
    /\ UNCHANGED <<left_data, right_data, crs, k_neighbors>>
    /\ UNCHANGED notNnVars

\* a caller runs Attribute.get_nearest on the centroids of the two collections
CallGetNearest ==
    /\ pc = "nearest"
    /\ nn_call = ""
    /\ nn_result' \in get_nearest(PlainCoords(left_data), PlainCoords(right_data),
                                  k_neighbors)
    /\ nn_call' = "get_nearest"
    /\ UNCHANGED <<left_data, right_data, crs, k_neighbors>>
    /\ UNCHANGED notNnVars

\* the sequences over S of the lengths lo .. hi
SeqsOf(S, lo, hi) == UNION {[1..n -> S] : n \in lo..hi}

\* two collections of any of the types with up to MaxLeft source and MaxRight
\* candidate geometries, a crs and a rank
InitNearest ==
    /\ SplitIdle("nearest")
    /\ CatchIdle
    /\ AggIdle
    /\ OsmIdle
    /\ FootprintIdle
    /\ \E lt, rt \in DataTypes :
        \E lg \in SeqsOf(Sources, 0, MaxLeft) :
        \E rg \in SeqsOf(Candidates, 0, MaxRight) :
            /\ left_data = [type |-> lt, geoms |-> lg]
            /\ right_data = [type |-> rt, geoms |-> rg]
            /\ crs \in CrsCodes
            \* get_nearest sees neither the types nor the crs: the rank is
            \* varied for one choice of them
            /\ k_neighbors \in (IF lt = "list" /\ rt = "list" /\ crs = 3035
                                 THEN 1..MaxRight ELSE {1})
    /\ nn_call = ""
    /\ nn_result = [kind |-> "nothing"]

NextNearest ==
    \/ CallNearestNeighbor
    \/ CallGetCentroidCoords
    \/ CallGetNearest

SpecNearest == InitNearest /\ [][NextNearest]_vars

-----------------------------------------------------------------------------
(* IndustrialBuildings: three handlers read the ways of one OSM file *)

\* n.x and n.y are integers, ten million to the degree
CoordScale == 10000000

\* a node reference of a way; has_id is hasattr(n, 'id'), false on the nodes
\* an extract left incomplete
Node(px, py, complete) ==
    [x |-> px * CoordScale, y |-> py * CoordScale, has_id |-> complete]

\* the closed ring of nodes around the box b; one node lacks its id when the
\* way is incomplete
Ring(b, complete) ==
    << Node(b[1], b[2], TRUE), Node(b[3], b[2], complete), Node(b[3], b[4], TRUE),
       Node(b[1], b[4], TRUE), Node(b[1], b[2], TRUE) >>

ZoneBox == <<2, 2, 6, 6>>      \* a landuse area
InsideBox == <<3, 3, 5, 5>>    \* a footprint within the area
CornerBox == <<5, 5, 9, 9>>    \* overlaps the area, its centroid outside it
FarBox == <<10, 10, 12, 12>>   \* away from the area

\* the ways an OSM file of the model is made of
WayChoices ==
    { [tags |-> [building |-> "yes"], nodes |-> Ring(InsideBox, TRUE)],
      [tags |-> [building |-> "yes"], nodes |-> Ring(CornerBox, TRUE)],
      [tags |-> [building |-> "yes"], nodes |-> Ring(FarBox, TRUE)],
      [tags |-> [building |-> "yes"], nodes |-> Ring(InsideBox, FALSE)],
      [tags |-> [building |-> "yes"],
       nodes |-> << Node(3, 3, TRUE), Node(5, 5, TRUE) >>],
      [tags |-> [building |-> "industrial"], nodes |-> Ring(InsideBox, TRUE)],
      [tags |-> [building |-> "industrial"], nodes |-> Ring(CornerBox, TRUE)],
      [tags |-> [building |-> "warehouse"], nodes |-> Ring(FarBox, TRUE)],
      [tags |-> [landuse |-> "industrial"], nodes |-> Ring(ZoneBox, TRUE)],
      [tags |-> [landuse |-> "commercial"], nodes |-> Ring(ZoneBox, TRUE)],
      [tags |-> [landuse |-> "residential"], nodes |-> Ring(ZoneBox, TRUE)],
      [tags |-> [landuse |-> "industrial"],
       nodes |-> << Node(2, 2, TRUE), Node(6, 6, TRUE) >>],
      [tags |-> [highway |-> "service"], nodes |-> Ring(InsideBox, TRUE)] }

industrial_building_tags ==
    {"industrial", "warehouse", "manufacture", "factory", "depot", "works",
     "workshop", "industrial_unit"}

other_industrial_landuse_tags ==
    {"commercial", "industrial_park", "harbour", "logistics", "port"}

\* Polygon([[n.x/10000000, n.y/10000000] for n in nodes]) raises on fewer
\* than three nodes
PolygonRaises(nodes) == Len(nodes) < 3

\* Polygon([[n.x/10000000, n.y/10000000] for n in nodes]) of a ring of
\* three nodes or more: the rings of the model run around boxes
Polygon(nodes) ==
    LET xs == [i \in 1..Len(nodes) |-> nodes[i].x \div CoordScale]
        ys == [i \in 1..Len(nodes) |-> nodes[i].y \div CoordScale]
    IN  <<SeqMin(xs), SeqMin(ys), SeqMax(xs), SeqMax(ys)>>

\* one entry of a handler's results; way is the position in the file of the
\* way the polygon was made from, kept for the properties only
Footprint(i, nodes) == [way |-> i, geometry |-> Polygon(nodes)]

\* way_is_in_zone(w, zone): "true", "false", or "raise" when Polygon does
way_is_in_zone(w, zone) ==
    LET nodes_in_bounds ==
            { i \in 1..Len(w.nodes) :
                /\ zone[1] < w.nodes[i].x \div CoordScale
                /\ w.nodes[i].x \div CoordScale < zone[3]
                /\ zone[2] < w.nodes[i].y \div CoordScale
                /\ w.nodes[i].y \div CoordScale < zone[4] }
    IN  IF nodes_in_bounds = {} THEN "false"
        ELSE IF \E i \in 1..Len(w.nodes) : ~w.nodes[i].has_id THEN "false"
        ELSE IF PolygonRaises(w.nodes) THEN "raise"
        ELSE IF Intersects(Polygon(w.nodes), zone) THEN "true"
        ELSE "false"

\* BuildingsInZonesHandler.way_is_in_a_zone: the first zone that does not
\* answer False decides
way_is_in_a_zone(w, zones) ==
    LET decided == { j \in 1..Len(zones) :
                        way_is_in_zone(w, zones[j].geometry) # "false" }
    IN  IF decided = {} THEN "false"
        ELSE way_is_in_zone(w, zones[CHOOSE j \in decided :
                                        \A k \in decided : j <= k].geometry)

\* building_is_in_way(building, way): False only when the centroid is
\* outside the way's x range and outside its y range, else intersects
building_is_in_way(building, way) ==
    LET b == Polygon(way.nodes)
        cx2 == building[1] + building[3]   \* twice the centroid
        cy2 == building[2] + building[4]
    IN  IF /\ ~(2 * b[1] < cx2 /\ cx2 < 2 * b[3])
           /\ ~(2 * b[2] < cy2 /\ cy2 < 2 * b[4])
        THEN FALSE
        ELSE Intersects(b, building)

\* IndustrialLanduseHandler.way_contains_building
way_contains_building(w, buildings) ==
    \E j \in 1..Len(buildings) : building_is_in_way(buildings[j].geometry, w)

\* IndustrialBuildingHandler.way on the next way of the file
IndustrialBuildingHandlerWay ==
    /\ pc = "buildings"
    /\ handler = "IndustrialBuildingHandler"
    /\ next_way <= Len(ways)
    /\ LET w == ways[next_way]
       IN  IF /\ "building" \in DOMAIN w.tags
              /\ w.tags["building"] \in industrial_building_tags
           THEN IF PolygonRaises(w.nodes)
                THEN /\ handler' = "raised"
                     /\ UNCHANGED <<next_way, industrial_buildings>>
                ELSE /\ industrial_buildings' =
                            Append(industrial_buildings, Footprint(next_way, w.nodes))
                     /\ next_way' = next_way + 1
                     /\ UNCHANGED handler
           ELSE /\ next_way' = next_way + 1
                /\ UNCHANGED <<handler, industrial_buildings>>
    /\ UNCHANGED <<ways, industrial_landuse_zones, buildings_in_zones>>
    /\ UNCHANGED notOsmVars

\* IndustrialLanduseHandler.way taking every landuse of the other tags
IndustrialLanduseHandlerWayAnyZone ==
    /\ pc = "buildings"
    /\ handler = "IndustrialLanduseHandler"
    /\ next_way <= Len(ways)
    /\ LET w == ways[next_way]
       IN  industrial_landuse_zones' =
               IF /\ "landuse" \in DOMAIN w.tags
                  /\ Len(w.nodes) >= 3
                  /\ w.tags["landuse"] \in {"industrial"} \cup other_industrial_landuse_tags
               THEN Append(industrial_landuse_zones, Footprint(next_way, w.nodes))
               ELSE industrial_landuse_zones
    /\ next_way' = next_way + 1
    /\ UNCHANGED <<ways, handler, industrial_buildings, buildings_in_zones>>
    /\ UNCHANGED notOsmVars

\* IndustrialLanduseHandler.way on the next way of the file
IndustrialLanduseHandlerWay ==
    /\ pc = "buildings"
    /\ handler = "IndustrialLanduseHandler"
    /\ next_way <= Len(ways)
    /\ LET w == ways[next_way]
       IN  industrial_landuse_zones' =
               IF "landuse" \notin DOMAIN w.tags THEN industrial_landuse_zones
               ELSE IF Len(w.nodes) < 3 THEN industrial_landuse_zones
               ELSE IF w.tags["landuse"] = "industrial"
               THEN Append(industrial_landuse_zones, Footprint(next_way, w.nodes))
               ELSE IF /\ w.tags["landuse"] \in other_industrial_landuse_tags
                       /\ way_contains_building(w, industrial_buildings)
               THEN Append(industrial_landuse_zones, Footprint(next_way, w.nodes))
               ELSE industrial_landuse_zones
    /\ next_way' = next_way + 1
    /\ UNCHANGED <<ways, handler, industrial_buildings, buildings_in_zones>>
    /\ UNCHANGED notOsmVars

\* BuildingsInZonesHandler.way on the next way of the file
BuildingsInZonesHandlerWay ==
    /\ pc = "buildings"
    /\ handler = "BuildingsInZonesHandler"
    /\ next_way <= Len(ways)
    /\ LET w == ways[next_way]
           in_zone == IF "building" \in DOMAIN w.tags
                      THEN way_is_in_a_zone(w, industrial_landuse_zones)
                      ELSE "false"
       IN  CASE in_zone = "raise" ->
                  /\ handler' = "raised"
                  /\ UNCHANGED <<next_way, buildings_in_zones>>
             [] in_zone = "true" ->
                  /\ buildings_in_zones' =
                        Append(buildings_in_zones, Footprint(next_way, w.nodes))
                  /\ next_way' = next_way + 1
                  /\ UNCHANGED handler
             [] in_zone = "false" ->
                  /\ next_way' = next_way + 1
                  /\ UNCHANGED <<handler, buildings_in_zones>>
    /\ UNCHANGED <<ways, industrial_buildings, industrial_landuse_zones>>
    /\ UNCHANGED notOsmVars

\* apply_file returns once the handler has seen every way; __init__ goes on
\* to the next handler
ApplyFileReturns ==
    /\ pc = "buildings"
    /\ handler \in {"IndustrialBuildingHandler", "IndustrialLanduseHandler",
                    "BuildingsInZonesHandler"}
    /\ next_way > Len(ways)
    /\ handler' = CASE handler = "IndustrialBuildingHandler" -> "IndustrialLanduseHandler"
                    [] handler = "IndustrialLanduseHandler" -> "BuildingsInZonesHandler"
                    [] handler = "BuildingsInZonesHandler" -> "extend"
    /\ next_way' = 1
    /\ UNCHANGED <<ways, industrial_buildings, industrial_landuse_zones,
                   buildings_in_zones>>
    /\ UNCHANGED notOsmVars

\* self.industrial_buildings.extend(buildings_in_industrial_zones_handler.results)
ExtendIndustrialBuildings ==
    /\ pc = "buildings"
    /\ handler = "extend"
    /\ industrial_buildings' = industrial_buildings \o buildings_in_zones
    /\ handler' = "done"
    /\ UNCHANGED <<ways, next_way, industrial_landuse_zones, buildings_in_zones>>
    /\ UNCHANGED notOsmVars

InitBuildings ==
    /\ SplitIdle("buildings")
    /\ CatchIdle
    /\ AggIdle
    /\ NearestIdle
    /\ FootprintIdle
    /\ ways \in SeqsOf(WayChoices, 0, MaxWays)
    /\ handler = "IndustrialBuildingHandler"
    /\ next_way = 1
    /\ industrial_buildings = <<>>
    /\ industrial_landuse_zones = <<>>
    /\ buildings_in_zones = <<>>

NextBuildings ==
    \/ IndustrialBuildingHandlerWay
    \/ IndustrialLanduseHandlerWay
    \/ BuildingsInZonesHandlerWay
    \/ ApplyFileReturns
    \/ ExtendIndustrialBuildings

SpecBuildings == InitBuildings /\ [][NextBuildings]_vars

-----------------------------------------------------------------------------
(* IndustrialFootprintInCatchment.apply_to.  Geometries are boxes
   <<x1, y1, x2, y2>>; lengths are counted in halves of a unit and areas in
   quarters, so that (2, 3)-(3, 3.5) is <<4, 6, 6, 7>> and its area 0.5 is 2 *)

Area(b) == (b[3] - b[1]) * (b[4] - b[2])

\* the part two boxes share
Intersection(a, b) ==
    <<Max(a[1], b[1]), Max(a[2], b[2]), Min(a[3], b[3]), Min(a[4], b[4])>>

\* the boxes share a part with an area
Overlaps(a, b) ==
    /\ Max(a[1], b[1]) < Min(a[3], b[3])
    /\ Max(a[2], b[2]) < Min(a[4], b[4])

\* the corners of a box
Vertices(b) == << <<b[1], b[2]>>, <<b[3], b[2]>>, <<b[3], b[4]>>, <<b[1], b[4]>> >>

\* Catchment.apply_catchment(grid): grid.data gets the catchment's geometry
\* of each cell as a column
apply_catchment(d, results) ==
    [i \in 1..Len(d) |->
        [GRD_ID |-> d[i].GRD_ID, geometry |-> d[i].geometry,
         catchment |-> results[i]]]

\* set_geometry(name) taking the cell geometries
set_geometry_cells(d) == [i \in 1..Len(d) |-> d[i].geometry]

\* grid.data.set_geometry(self.catchment.catchment_name): the geometries of
\* the frame are the catchments
set_geometry(d) == [i \in 1..Len(d) |-> d[i].catchment]

\* to_crs(to) of a frame in the CRS from: every vertex of every geometry is
\* moved by the projection, none when the frame is in that CRS already.  The
\* projection itself is pyproj's; here a fixed one-to-one map that is not the
\* identity stands for it.
to_crs(geoms, from, to) ==
    [i \in 1..Len(geoms) |->
        [k \in 1..4 |->
            LET p == Vertices(geoms[i])[k]
            IN  IF from = to THEN p ELSE <<p[1] - p[2], p[1] + p[2]>>]]

\* total_bounds of geometries given by their vertices
total_bounds(shapes) ==
    LET xs == { shapes[i][k][1] : i \in 1..Len(shapes), k \in 1..4 }
        ys == { shapes[i][k][2] : i \in 1..Len(shapes), k \in 1..4 }
        Least(S) == CHOOSE v \in S : \A u \in S : v <= u
        Most(S) == CHOOSE v \in S : \A u \in S : v >= u
    IN  <<Least(xs), Least(ys), Most(xs), Most(ys)>>

\* gpd.overlay giving each piece the area of the whole footprint
overlay_whole_footprints(geoms, buildings) ==
    [i \in 1..Len(geoms) |->
        [j \in 1..Len(buildings) |->
            IF Overlaps(geoms[i], buildings[j]) THEN Area(buildings[j]) ELSE 0]]

\* gpd.overlay(frame, buildings) and overlays.area: for the geometry of row i
\* and building j, the area of the piece they share (0: there is no piece)
overlay(geoms, buildings) ==
    [i \in 1..Len(geoms) |->
        [j \in 1..Len(buildings) |->
            IF Overlaps(geoms[i], buildings[j])
            THEN Area(Intersection(geoms[i], buildings[j]))
            ELSE 0]]

\* the sum of a sequence of numbers
RECURSIVE SumSeq(_)
SumSeq(s) == IF s = <<>> THEN 0 ELSE s[1] + SumSeq(Tail(s))

\* overlays.groupby(['GRD_ID']).sum(): the rows that have a piece, each with
\* the sum of its pieces
groupby_sum(d, areas) ==
    LET has_piece == { i \in 1..Len(d) : \E j \in DOMAIN areas[i] : areas[i][j] > 0 }
    IN  [i \in has_piece |-> SumSeq(areas[i])]

\* grid.data.merge(overlays, on='GRD_ID'): the default is an inner merge, it
\* keeps the rows of grid.data that have a group, in their order
merge(d, sums) ==
    LET kept == SelectSeq([i \in 1..Len(d) |-> i], LAMBDA i : i \in DOMAIN sums)
    IN  [k \in 1..Len(kept) |->
            [GRD_ID |-> d[kept[k]].GRD_ID, geometry |-> d[kept[k]].geometry,
             catchment |-> d[kept[k]].catchment,
             industrial_footprint |-> sums[kept[k]]]]

\* f'industrial_footprint_{self.catchment.catchment_name}'
FootprintColumn(name) == <<"industrial_footprint", name>>

\* IndustrialFootprintInCatchment.apply_to(grid)
ApplyTo ==
    /\ pc = "footprint"
    /\ buildings_calls = <<>>
    /\ LET with_catchment == apply_catchment(grid_data, catchment_results)
           frame == set_geometry(with_catchment)
           bounds_4326 == total_bounds(to_crs(frame, grid_crs, 4326))
           areas == overlay(frame, osm_buildings)
       IN  /\ buildings_calls' = <<[bounds |-> bounds_4326, crs |-> grid_crs]>>
           /\ grid_data' = merge(with_catchment, groupby_sum(with_catchment, areas))
    /\ fp_column' = FootprintColumn("20min_drive")
    /\ grid_before' = grid_data
    /\ UNCHANGED <<grid_crs, catchment_results, osm_buildings>>
    /\ UNCHANGED notFpVars

\* the cell i of a grid: a row of squares of side 2
GridCell(i) == <<4 * (i - 1), 0, 4 * i, 4>>

CatchmentChoices == { <<0, 0, 8, 8>>, <<0, 0, 6, 10>> }

BuildingChoices ==
    { <<4, 4, 6, 6>>,        \* area 1
      <<4, 6, 6, 7>>,        \* area 0.5
      <<6, 6, 10, 8>>,       \* half of it inside the catchment <<0, 0, 8, 8>>
      <<20, 20, 22, 22>> }   \* away from every catchment

InitFootprint ==
    /\ SplitIdle("footprint")
    /\ CatchIdle
    /\ AggIdle
    /\ NearestIdle
    /\ OsmIdle
    /\ \E n \in 1..MaxGridCells :
          /\ grid_data = [i \in 1..n |-> [GRD_ID |-> i, geometry |-> GridCell(i)]]
          /\ catchment_results \in [1..n -> CatchmentChoices]
    /\ grid_crs \in {3035, 4326}
    /\ osm_buildings \in SeqsOf(BuildingChoices, 1, MaxBuildings)
    /\ buildings_calls = <<>>
    /\ fp_column = <<>>
    /\ grid_before = <<>>

NextFootprint == ApplyTo

SpecFootprint == InitFootprint /\ [][NextFootprint]_vars

-----------------------------------------------------------------------------
(* The two specifications of split *)

\* lower-left corners of the grid
Origins == {<<0, 0>>, <<1, 3>>}

\* allow-lists: none, a level-0 code, and a code of no row with a level-3 code
AllowLists == {<<>>,
               << <<"B","B">> >>,
               << <<"C","C">>, <<"A","A","1","1","1">> >>}

\* the predicates a caller passes: none, or "not one of these completed tiles"
Filters(rs, split, cell) ==
    LET b == DataBounds(rs)
        regions == {Descriptor(px, b[2], split, 0, cell, <<>>).valid_region :
                        px \in {q \in b[1]..(b[3] - 1) : (q - b[1]) % split = 0}}
    IN  {NoFilter} \cup {[given |-> TRUE, rejects |-> {r}] : r \in regions}

\* split with one core and no filter, over every geometry
InitTiling ==
    \E o \in Origins, w \in 1..MaxCols, h \in 1..MaxRows,
       split \in 1..MaxSplit, buffer \in (-1)..MaxBuffer, half \in 0..MaxHalfCell :
        /\ SplitEntry(GridFile(o[1], o[2], w, h, [i \in 1..(w * h) |-> NorthNuts]),
                      <<>>, split, buffer, 2 * half, 1, NoFilter)
        /\ CatchIdle
        /\ AggIdle
        /\ NearestIdle
        /\ OsmIdle
        /\ FootprintIdle

NextTiling ==
    \/ SplitAppend
    \/ SplitNextColumn
    \/ SplitTiled
    \/ SplitFilter
    \/ SerialStep
    \/ SerialReturn

SpecTiling == InitTiling /\ [][NextTiling]_vars

\* split over every content of a one-row file, allow-list, filter and pool size
Init ==
    \E w \in 1..MaxFileCells, split \in {CellSide, 2 * CellSide},
       buffer \in {CellSide}, n_cores \in 1..MaxCores, nuts \in AllowLists :
      \E region \in [1..w -> {NorthNuts, SouthNuts, NullNuts}] :
        \E filter \in Filters(GridFile(0, 0, w, 1, region), split, CellSide) :
            /\ SplitEntry(GridFile(0, 0, w, 1, region), nuts, split, buffer,
                          CellSide, n_cores, filter)
            /\ CatchIdle
            /\ AggIdle
            /\ NearestIdle
            /\ OsmIdle
            /\ FootprintIdle

Next ==
    \/ SplitAppend
    \/ SplitNextColumn
    \/ SplitTiled
    \/ SplitFilter
    \/ SerialStep
    \/ SerialReturn
    \/ PoolStart
    \/ \E i \in running : PoolFinish(i)
    \/ PoolCollect
    \/ PoolReturn

Spec == Init /\ [][Next]_vars

-----------------------------------------------------------------------------
(* Properties of the tiling (SpecTiling) *)

\* the descriptors the two loops have built
Built == IF pc = "tiling" THEN sub_grids ELSE tiling

\* the unit squares [p, p+1] x [q, q+1] of a box: every corner of every region
\* is an integer, so a region covers a part of the box iff it covers unit squares
UnitSquares(b) == {<<p, q>> : p \in b[1]..(b[3] - 1), q \in b[2]..(b[4] - 1)}

SquareInBox(sq, b) == /\ b[1] <= sq[1] /\ sq[1] + 1 <= b[3]
                      /\ b[2] <= sq[2] /\ sq[2] + 1 <= b[4]

\* a box grown by h on every side
Widen(b, h) == <<b[1] - h, b[2] - h, b[3] + h, b[4] + h>>

\* box a reaches at least as far as box b on every side
Superset(a, b) == /\ BoxPolygon(a)[1] <= BoxPolygon(b)[1]
                  /\ BoxPolygon(a)[2] <= BoxPolygon(b)[2]
                  /\ BoxPolygon(a)[3] >= BoxPolygon(b)[3]
                  /\ BoxPolygon(a)[4] >= BoxPolygon(b)[4]

\* two boxes are at least gap apart along x or along y
Apart(a, b, gap) == \/ b[1] - a[3] >= gap \/ a[1] - b[3] >= gap
                    \/ b[2] - a[4] >= gap \/ a[2] - b[4] >= gap

\* C1 as the spec states it: once the loops are over, the valid_regions cover
\* the bounding box with no gaps and no overlaps, i.e. every unit square of the
\* bounding box lies in exactly one valid_region.
C1_ValidRegionsPartitionBounds ==
    pc # "tiling" =>
        \A sq \in UnitSquares(bounds) :
            Cardinality({i \in 1..Len(tiling) :
                            SquareInBox(sq, tiling[i].valid_region)}) = 1

\* C1 as the code has it: the valid_regions are each shrunk by half a cell, so
\* it is the valid_regions widened by cell_size / 2 that tile the bounding box
\* (every unit square of it lies in exactly one of them, and each of them
\* starts inside it), while two valid_regions are always cell_size or more apart.
C1_WidenedValidRegionsTileBounds ==
    /\ pc # "tiling" =>
        \A sq \in UnitSquares(bounds) :
            Cardinality({i \in 1..Len(tiling) :
                SquareInBox(sq, Widen(tiling[i].valid_region, cell_size \div 2))}) = 1
    /\ \A i \in 1..Len(Built) :
        /\ Widen(Built[i].valid_region, cell_size \div 2)[1] \in bounds[1]..(bounds[3] - 1)
        /\ Widen(Built[i].valid_region, cell_size \div 2)[2] \in bounds[2]..(bounds[4] - 1)
        /\ \A j \in 1..Len(Built) :
            i # j => Apart(Built[i].valid_region, Built[j].valid_region, cell_size)

\* a tiling of several columns and rows that overshoots the bounding box, with
\* a cell size that leaves gaps between the valid_regions
C1_Witness ==
    /\ pc = "returned"
    /\ cell_size > 0
    /\ Len(tiling) >= 4
    /\ \E i \in 1..Len(tiling) :
        ~Superset(bounds, Widen(tiling[i].valid_region, cell_size \div 2))
    /\ \E i, j \in 1..Len(tiling) :
        /\ tiling[i].valid_region[1] # tiling[j].valid_region[1]
        /\ tiling[i].valid_region[2] # tiling[j].valid_region[2]

\* the rows that make_gdf_from_gpkg marks valid in the tile of descriptor d
\* (the allow-list is empty under SpecTiling: only the geometry decides)
ValidIn(d) == valid_filter(prepare_subgrid(d))

\* C2: no grid cell is split between two tiles: every row of the file is marked
\* valid in exactly one tile.  Stated for the inputs split is meant for (the
\* cell_size argument is the side of the cells, tiles are at least one cell
\* wide, the buffer is not negative).
C2_NoCellSplit ==
    (pc # "tiling" /\ cell_size = CellSide /\ split_size >= cell_size
                   /\ buffer_size >= 0) =>
        \A r \in 1..Len(rows) :
            Cardinality({i \in 1..Len(tiling) : r \in ValidIn(tiling[i])}) = 1

\* What does hold of the code: with a split_size that is a multiple of the
\* cell side no cell is split.
NoCellSplitOnWholeCellTiles ==
    (pc # "tiling" /\ cell_size = CellSide /\ split_size % CellSide = 0
                   /\ buffer_size >= 0) =>
        \A r \in 1..Len(rows) :
            Cardinality({i \in 1..Len(tiling) : r \in ValidIn(tiling[i])}) = 1

\* every descriptor, and the tile prepare_subgrid makes of it, has a
\* full_extent that is a superset of its valid_region
FullExtentCoversValidRegion ==
    /\ \A i \in 1..Len(Built) :
        /\ Superset(Built[i].full_extent, Built[i].valid_region)
        /\ Superset(prepare_subgrid(Built[i]).full_extent,
                    prepare_subgrid(Built[i]).valid_region)
        /\ prepare_subgrid(Built[i]).valid_region = Built[i].valid_region
    /\ \A i \in 1..Len(splits) : Superset(splits[i].full_extent, splits[i].valid_region)

\* C3 as the spec states it: full_extent is a superset of valid_region for
\* every split_size, buffer_size and cell_size.
C3_FullExtentSupersetAlways == FullExtentCoversValidRegion

\* C3 as the code has it: full_extent is a superset of valid_region whenever
\* buffer_size is not negative (and cell_size <= split_size, so that the
\* valid_region is a box at all).
C3_FullExtentSupersetForNonNegativeBuffer ==
    (buffer_size >= 0 /\ cell_size <= split_size) => FullExtentCoversValidRegion

\* tiles were built with a real buffer around a real valid_region
C3_Witness ==
    /\ pc = "returned"
    /\ buffer_size > 0
    /\ cell_size > 0
    /\ cell_size < split_size
    /\ Len(splits) >= 2
    /\ splits[1].full_extent # splits[1].valid_region

-----------------------------------------------------------------------------
(* Properties of materialization (Spec) *)

\* some row of the file meets the box b and matches the descriptor's allow-list
MatchingRowIn(b, d) ==
    \E i \in 1..Len(rows) :
        /\ Intersects(Geometry(rows[i]), b)
        /\ rows[i].NUTS # NullNuts
        /\ NutsMatch(rows[i], d.valid_nuts)

\* the tiles of those descriptors of ds that are in keep, in the order of ds
TilesOf(ds, keep) ==
    LET kept == SelectSeq(ds, LAMBDA d : d \in keep)
    IN  [i \in 1..Len(kept) |-> prepare_subgrid(kept[i])]

\* what the loop of lines 234-237 leaves in splits when no descriptor raises
RECURSIVE SerialSplits(_, _)
SerialSplits(ds, acc) ==
    IF ds = <<>> THEN acc
    ELSE SerialSplits(Tail(ds), Collected(acc, make_sub_grid_obj(Head(ds))))

\* C4: the list split returns is in the order of the descriptors whatever the
\* order in which the workers finish, the None results removed: it is the list
\* the serial loop builds from the same descriptors.
C4_PoolKeepsDescriptorOrder ==
    pc = "returned" =>
        /\ returned.kind = "list"
        /\ returned.tiles = SerialSplits(sub_grids, <<>>)
        /\ returned.tiles =
             TilesOf(sub_grids,
                     {d \in SeqRange(sub_grids) : make_sub_grid_obj(d).kind = "tile"})

\* a pool run whose workers finished out of order, which returned several
\* tiles and dropped a None
C4_Witness ==
    /\ pc = "returned"
    /\ cores > 1
    /\ overtaken
    /\ Len(returned.tiles) >= 2
    /\ Len(returned.tiles) < Len(sub_grids)
    /\ returned.tiles[1] # returned.tiles[2]

\* C5 as the spec states it: a descriptor becomes a tile iff some row within
\* its full_extent matches the allow-list, and is dropped from the result
\* otherwise.
C5_TileIffMatchingRowInFullExtent ==
    pc = "returned" =>
        returned.tiles = TilesOf(sub_grids,
                    {d \in SeqRange(sub_grids) : MatchingRowIn(d.full_extent, d)})

\* C5 as the code has it: whenever materialization ends without raising, a
\* descriptor becomes a tile iff some row within its valid_region matches the
\* allow-list (every row matches an empty allow-list), and is dropped from the
\* result otherwise.
C5_TileIffMatchingRowInValidRegion ==
    /\ pc = "returned" =>
        returned.tiles = TilesOf(sub_grids,
                    {d \in SeqRange(sub_grids) : MatchingRowIn(d.valid_region, d)})
    /\ \A i \in DOMAIN outcome :
        /\ outcome[i].kind = "tile" =>
            /\ MatchingRowIn(sub_grids[i].valid_region, sub_grids[i])
            /\ outcome[i].tile = prepare_subgrid(sub_grids[i])
        /\ outcome[i].kind = "None" =>
            ~MatchingRowIn(sub_grids[i].valid_region, sub_grids[i])

\* split returned a tile and dropped a descriptor that has no matching row in
\* its valid_region but has one in its full_extent
C5_Witness ==
    /\ pc = "returned"
    /\ valid_nuts # <<>>
    /\ returned.tiles # <<>>
    /\ \E i \in 1..Len(sub_grids) :
        /\ prepare_subgrid(sub_grids[i]) \notin SeqRange(returned.tiles)
        /\ ~MatchingRowIn(sub_grids[i].valid_region, sub_grids[i])
        /\ MatchingRowIn(sub_grids[i].full_extent, sub_grids[i])

\* C6: if materializing any descriptor raises, split fails as a whole: it
\* returns a list only when no descriptor it was to materialize raises, and once
\* it has raised its caller has the error and no list, with one worker and with
\* several.
C6_ErrorIsFatal ==
    /\ pc = "returned" =>
        \A i \in 1..Len(sub_grids) : make_sub_grid_obj(sub_grids[i]).kind # "raise"
    /\ returned.kind = "list" => pc = "returned"
    /\ pc = "raised" =>
        /\ returned.kind = "error"
        /\ \E i \in 1..Len(sub_grids) : make_sub_grid_obj(sub_grids[i]).kind = "raise"

\* a pool run that raised after tiles of earlier descriptors had been collected
C6_Witness ==
    /\ pc = "raised"
    /\ cores > 1
    /\ Len(splits) >= 1
    /\ returned.kind = "error"

-----------------------------------------------------------------------------
(* Properties of _apply_catchment_to_grid (SpecCatchment) *)

\* the catchments of the grid that carry the name n
Registered(n) ==
    {k \in 1..Len(grid_catchments) :
        catchment_objs[grid_catchments[k]].catchment_name = n}

\* the attributes applied so far whose catchment carries the name n
AppliedWith(n) ==
    {a \in SeqRange(applied) : catchment_objs[a].catchment_name = n}

\* C7: whichever catchments sharing a name were applied to the grid, in any
\* order and any number of times, grid.catchments holds exactly one catchment
\* of that name, its cells are the union of the cells of all of them, one
\* geometry column of that name was made, and every attribute applied refers
\* to that one catchment.
C7_OneMergedCatchmentPerName ==
    \A n \in CatchmentNames :
        IF AppliedWith(n) = {}
        THEN Registered(n) = {} /\ geometry_columns[n] = 0
        ELSE /\ Cardinality(Registered(n)) = 1
             /\ geometry_columns[n] = 1
             /\ \A k \in Registered(n) :
                 /\ DOMAIN catchment_objs[grid_catchments[k]].cells =
                        UNION {DOMAIN EntriesOf(a) : a \in AppliedWith(n)}
                 /\ \A a \in AppliedWith(n) : attr_catchment[a] = grid_catchments[k]

\* two attributes with catchments of one name and different cells were both
\* applied, one of them twice, beside a catchment of another name
C7_Witness ==
    /\ \E a, b \in SeqRange(applied) :
        /\ a # b
        /\ catchment_objs[a].catchment_name = catchment_objs[b].catchment_name
        /\ Cardinality({i \in 1..Len(applied) : applied[i] = a}) >= 2
        /\ \E k \in Registered(catchment_objs[a].catchment_name) :
            Cardinality(DOMAIN catchment_objs[grid_catchments[k]].cells) = 3
    /\ Len(grid_catchments) = 2

-----------------------------------------------------------------------------
(* Properties of compute_for_catchment (SpecAggregate) *)

\* the attribute columns of d that carry the label
ColumnsNamed(d, label) == IndexesOf(d.columns, label)

\* C8: a further run of compute_for_catchment on the tile leaves the column set
\* and every cell's values as the first run made them.
C8_AggregationIdempotent == runs >= 2 => data = data_first

\* the tile was aggregated twice without an error with a recipe of two columns,
\* and holds a number for some cell and a missing value for another
C8_Witness ==
    /\ runs >= 2
    /\ ~raised
    /\ ~HasRepeats(catchment.cols) /\ Len(catchment.cols) = 2
    /\ Len(data.columns) = 3
    /\ \E k, h \in 1..Len(data.rows) : data.rows[k].atts[2] # Null /\ data.rows[h].atts[2] = Null

\* what the column of pair (col, op) is to hold for row k of d
Expected(d, k, col, op) ==
    IF Joined(d, k) = {} THEN Null ELSE Val(Aggregate(op, d, col, Joined(d, k)))

\* the attribute columns of d that are not in before
ResultColumns(d, before) ==
    {c \in 1..Len(d.columns) : d.columns[c] \notin SeqRange(before.columns)}

\* one result column per pair: as many result columns as pairs, and for pair i
\* a column of the name atts_to_agg[i] with operator i over column i
OneColumnPerPair ==
    /\ ~raised
    /\ Cardinality(ResultColumns(data, data_before)) = Len(catchment.cols)
    /\ \A i \in 1..Len(catchment.cols) :
        \E c \in ColumnsNamed(data, catchment.atts_to_agg[i]) :
            \A k \in 1..Len(data.rows) :
                data.rows[k].atts[c] =
                    Expected(data_before, k, catchment.cols[i], catchment.aggs[i])

\* C9: after compute_for_catchment there is one result column per (column i,
\* operator i) pair of the recipe, named from the source column and the
\* catchment name and holding operator i over the matched rows' values of
\* column i, also when a source column appears several times.
C9_OneColumnPerPair == runs >= 1 => OneColumnPerPair

\* the same, for recipes that name every source column once
OneColumnPerPairForDistinctColumns ==
    (runs >= 1 /\ ~HasRepeats(catchment.cols)) => OneColumnPerPair

\* a recipe of two different columns was aggregated
DistinctColumnsAggregated ==
    /\ runs >= 1
    /\ Cardinality(SeqRange(catchment.cols)) = 2
    /\ \E k \in 1..Len(data.rows) : Cardinality(Joined(data, k)) >= 2

\* C10: after compute_for_catchment the tile has the rows of the same cells, one
\* per cell id and in the same order, and a cell whose catchment geometry
\* contains no centroid has a missing value, not a number, in every result
\* column.
C10_SameCellsAndNullForUnmatched ==
    runs >= 1 =>
        /\ Len(data.rows) = Len(data_before.rows)
        /\ \A k \in 1..Len(data.rows) :
            /\ data.rows[k].GRD_ID = data_before.rows[k].GRD_ID
            /\ Joined(data_before, k) = {} =>
                \A c \in ResultColumns(data, data_before) : data.rows[k].atts[c] = Null

\* a valid cell whose catchment geometry contains no centroid stands beside a
\* cell whose aggregated value is the number zero
C10_Witness ==
    /\ runs >= 1
    /\ ~raised
    /\ \E k, h \in 1..Len(data.rows) :
        /\ data.rows[k].valid
        /\ Joined(data_before, k) = {}
        /\ \E c \in ResultColumns(data, data_before) :
            data.rows[k].atts[c] = Null /\ data.rows[h].atts[c] = Val(0)

-----------------------------------------------------------------------------
(* The point catchments of compute_for_catchment (SpecAggregate) *)

\* the rows of d that are in self.data[self.valid_filter] and whose catchment
\* geometry is a single point with a centroid of some row exactly on it
PointCatchments(d) ==
    {k \in 1..Len(d.rows) :
        /\ d.rows[k].valid
        /\ d.rows[k].geom.geom_type = "Point"
        /\ \E j \in 1..Len(d.rows) : d.rows[j].centroid = d.rows[k].geom.lo}

-----------------------------------------------------------------------------
(* Properties of the nearest-neighbour functions (SpecNearest) *)

SupportedCrs == {3035, 4326}

\* C12: with an empty right_data nearest_neighbor does not raise; it returns
\* two lists of the length of left_data, a NaN for every source geometry and
\* an infinite distance for every source geometry.
C12_EmptyCandidatesGivePlaceholders ==
    (nn_call = "nearest_neighbor" /\ Len(right_data.geoms) = 0) =>
        /\ nn_result.kind = "return"
        /\ Len(nn_result.closest_points) = Len(left_data.geoms)
        /\ Len(nn_result.dist) = Len(left_data.geoms)
        /\ \A i \in 1..Len(left_data.geoms) :
            nn_result.closest_points[i] = NaN /\ nn_result.dist[i] = Inf

\* nearest_neighbor returned for two source geometries and no candidate, with
\* collections and a crs that would otherwise be refused
C12_Witness ==
    /\ nn_call = "nearest_neighbor"
    /\ Len(right_data.geoms) = 0
    /\ Len(left_data.geoms) = 2
    /\ left_data.type = "tuple"
    /\ crs \notin SupportedCrs
    /\ nn_result.kind = "return"

\* C13 as stated: every call of nearest_neighbor or _get_centroid_coords with a
\* crs other than 3035 and 4326 ends in an error, whatever the collections are.
C13_UnsupportedCrsAlwaysRejected ==
    (nn_call \in {"nearest_neighbor", "_get_centroid_coords"} /\ crs \notin SupportedCrs) =>
        nn_result.kind = "raise"

\* C13: _get_centroid_coords with a crs other than 3035 and 4326 always ends in
\* an error, and so does nearest_neighbor when right_data is not empty; no
\* result is returned then.
C13_UnsupportedCrsRejectedWithCandidates ==
    /\ (nn_call = "_get_centroid_coords" /\ crs \notin SupportedCrs) =>
            nn_result.kind = "raise"
    /\ (nn_call = "nearest_neighbor" /\ crs \notin SupportedCrs
            /\ Len(right_data.geoms) > 0) =>
            nn_result.kind = "raise"

\* nearest_neighbor refused an unsupported crs for collections of supported
\* types that hold geometries
C13_Witness ==
    /\ nn_call = "nearest_neighbor"
    /\ crs \notin SupportedCrs
    /\ left_data.type = "list" /\ right_data.type = "GeoDataFrame"
    /\ Len(left_data.geoms) > 0 /\ Len(right_data.geoms) > 0
    /\ nn_result.kind = "raise"

\* the distance of the model for the plain Euclidean distance of p and q
Euclidean(p, q) == [inf |-> FALSE, sq |-> Dist2(p, q), unit |-> "crs", times |-> 1]

\* get_nearest returned, for every source point, a candidate that is its
\* rank-th nearest and the distance to that candidate
GivesRank(rank) ==
    /\ nn_result.kind = "return"
    /\ \A i \in 1..Len(left_data.geoms) :
        LET p == PlainCoords(left_data)[i]
        IN  /\ \E r \in QueryRows(p, PlainCoords(right_data), rank) :
                   r[rank] = nn_result.closest[i]
            /\ nn_result.dist[i] =
                   Euclidean(p, PlainCoords(right_data)[nn_result.closest[i]])

\* C14: for source points and k from 1 to the number of candidates,
\* get_nearest(src_points, candidates, k) gives for every source point the
\* index of its k-th nearest candidate and the distance to it.
C14_GetNearestGivesKthNearest ==
    (nn_call = "get_nearest" /\ Len(left_data.geoms) > 0
        /\ k_neighbors <= Len(right_data.geoms)) => GivesRank(k_neighbors)

\* whatever k is, get_nearest gives the nearest candidate
GetNearestGivesNearest ==
    (nn_call = "get_nearest" /\ Len(left_data.geoms) > 0
        /\ k_neighbors <= Len(right_data.geoms)) => GivesRank(1)

\* source (0, 0) with the candidates (0, 1) and (3, 3) and k = 1: index 0 of
\* Python, distance 1
NearestOfTwo ==
    /\ nn_call = "get_nearest"
    /\ k_neighbors = 1
    /\ left_data.geoms = <<PointAt(0, 0)>>
    /\ right_data.geoms = <<PointAt(0, 1), [x1 |-> 2, y1 |-> 2, x2 |-> 4, y2 |-> 4]>>
    /\ nn_result.kind = "return"
    /\ nn_result.closest = <<1>>
    /\ nn_result.dist[1].sq = 1

\* the great-circle arc between p and q (x the longitude, y the latitude, in
\* degrees) is a whole number of degrees that needs no trigonometry: one of
\* them is the pole, or they share a meridian, or both are on the equator
ExactArc(p, q) ==
    \/ p.y = 90 \/ q.y = 90
    \/ p.x = q.x
    \/ (p.y = 0 /\ q.y = 0)

Abs(n) == IF n < 0 THEN 0 - n ELSE n

\* that arc, in degrees
ArcDeg(p, q) ==
    IF p.y = 90 THEN 90 - q.y
    ELSE IF q.y = 90 THEN 90 - p.y
    ELSE IF p.x = q.x THEN Abs(p.y - q.y)
    ELSE Abs(p.x - q.x)

\* the length in metres of a great-circle arc of deg degrees on a sphere of
\* the earth's mean radius: deg * pi / 180 * 6371000
GreatCircleMetres(deg) ==
    [inf |-> FALSE, sq |-> deg * deg, unit |-> "rad", times |-> earth_radius]

\* C15: for crs 4326 nearest_neighbor gives for every source geometry a
\* candidate at the smallest great-circle distance and that distance in
\* metres, the arc times pi / 180 times 6371000; for crs 3035 it gives the
\* plain Euclidean distance.
C15_GeographicDistanceIsGreatCircle ==
    (nn_call = "nearest_neighbor" /\ nn_result.kind = "return"
        /\ Len(right_data.geoms) > 0) =>
        \A i \in 1..Len(left_data.geoms) :
            LET p    == Centroid(left_data.geoms[i])
                q    == Centroid(nn_result.closest_points[i])
                cand == {Centroid(right_data.geoms[j]) : j \in 1..Len(right_data.geoms)}
            IN  /\ crs = 3035 =>
                    nn_result.dist[i] = Euclidean(p, q)
                /\ (crs = 4326 /\ \A c \in cand : ExactArc(p, c)) =>
                    /\ nn_result.dist[i] = GreatCircleMetres(ArcDeg(p, q))
                    /\ \A c \in cand : ArcDeg(p, q) <= ArcDeg(p, c)

\* along a meridian or along the equator, where the arc is the difference of
\* the coordinates, the distance is the great-circle distance; and for crs
\* 3035 it is the plain Euclidean distance
GeographicDistanceOnMeridianOrEquator ==
    (nn_call = "nearest_neighbor" /\ nn_result.kind = "return"
        /\ Len(right_data.geoms) > 0) =>
        \A i \in 1..Len(left_data.geoms) :
            LET p == Centroid(left_data.geoms[i])
                q == Centroid(nn_result.closest_points[i])
            IN  /\ crs = 3035 => nn_result.dist[i] = Euclidean(p, q)
                /\ (crs = 4326 /\ (p.x = q.x \/ (p.y = 0 /\ q.y = 0))) =>
                    nn_result.dist[i] = GreatCircleMetres(ArcDeg(p, q))

\* source (0, 0) and candidate (0, 1) under crs 4326: one degree of arc, 
\* pi / 180 * 6371000 metres (111195 to the metre)
OneDegreeOfArc ==
    /\ nn_call = "nearest_neighbor"
    /\ crs = 4326
    /\ left_data.geoms = <<PointAt(0, 0)>>
    /\ right_data.geoms = <<PointAt(0, 1)>>
    /\ nn_result.kind = "return"
    /\ nn_result.dist = <<GreatCircleMetres(1)>>

-----------------------------------------------------------------------------
(* The sub_grid_filter of split (Spec) *)

\* the descriptors the loops built that the predicate rejects
Rejected ==
    {d \in SeqRange(tiling) : sub_grid_filter.given /\ ~Accepts(sub_grid_filter, d)}

\* C19: nothing is materialized before the filter has run; a descriptor the
\* predicate rejects is never handed to _make_sub_grid_obj, in the loop or in a
\* worker, and no tile of it is in the result; the accepted descriptors are
\* worked on, and their tiles returned, in the order the loops built them.
C19_FilterBeforeDispatch ==
    /\ pc \in {"tiling", "filter"} =>
            (materialized = {} /\ dispatched = 0 /\ running = {})
    /\ materialized \cap Rejected = {}
    /\ pc \notin {"tiling", "filter"} =>
            sub_grids = SelectSeq(tiling, LAMBDA d : d \notin Rejected)
    /\ returned.kind = "list" =>
            returned.tiles =
                TilesOf(tiling, {d \in SeqRange(tiling) \ Rejected :
                                    make_sub_grid_obj(d).kind = "tile"})

\* a pool run with a predicate that rejected a descriptor which would have
\* made a tile, and that returned the tiles of two others
C19_Witness ==
    /\ pc = "returned"
    /\ cores > 1
    /\ \E d \in Rejected : make_sub_grid_obj(d).kind = "tile"
    /\ Len(returned.tiles) >= 2
    /\ Cardinality(materialized) >= 2

-----------------------------------------------------------------------------
(* IndustrialBuildings: which ways are returned *)

\* the way at position i of the file has an entry in the result
Returned(i) ==
    \E j \in 1..Len(industrial_buildings) : industrial_buildings[j].way = i

IsBuilding(i) == "building" \in DOMAIN ways[i].tags

HasIndustrialBuildingTag(i) ==
    IsBuilding(i) /\ ways[i].tags["building"] \in industrial_building_tags

\* the way at position j is an area (three nodes or more) of landuse lu
IsZone(j, lu) ==
    /\ "landuse" \in DOMAIN ways[j].tags
    /\ ways[j].tags["landuse"] = lu
    /\ Len(ways[j].nodes) >= 3

\* the box a is within the box b
Within(a, b) == b[1] <= a[1] /\ b[2] <= a[2] /\ a[3] <= b[3] /\ a[4] <= b[4]

\* the three cases, "lies in" and "contains" read as geometric containment
IndustrialByContainment(i) ==
    \/ HasIndustrialBuildingTag(i)
    \/ \E j \in 1..Len(ways) :
          /\ IsZone(j, "industrial")
          /\ Within(Polygon(ways[i].nodes), Polygon(ways[j].nodes))
    \/ \E j \in 1..Len(ways), lu \in other_industrial_landuse_tags :
          /\ IsZone(j, lu)
          /\ Within(Polygon(ways[i].nodes), Polygon(ways[j].nodes))
          /\ \E k \in 1..Len(ways) :
                /\ HasIndustrialBuildingTag(k)
                /\ Within(Polygon(ways[k].nodes), Polygon(ways[j].nodes))

\* the three cases, "lies in" read as way_is_in_zone (a complete way with a
\* node strictly inside the zone's bounds that intersects the zone) and
\* "contains" as building_is_in_way
IndustrialByOverlap(i) ==
    \/ HasIndustrialBuildingTag(i)
    \/ \E j \in 1..Len(ways) :
          /\ IsZone(j, "industrial")
          /\ way_is_in_zone(ways[i], Polygon(ways[j].nodes)) = "true"
    \/ \E j \in 1..Len(ways), lu \in other_industrial_landuse_tags :
          /\ IsZone(j, lu)
          /\ way_is_in_zone(ways[i], Polygon(ways[j].nodes)) = "true"
          /\ \E k \in 1..Len(ways) :
                /\ HasIndustrialBuildingTag(k)
                /\ building_is_in_way(Polygon(ways[k].nodes), ways[j])

C20_NoBuildingTwice ==
    (pc = "buildings" /\ handler = "done") =>
        \A i, j \in 1..Len(industrial_buildings) :
            industrial_buildings[i].way = industrial_buildings[j].way => i = j

\* a building without an industrial tag has at most one footprint
PlainBuildingAtMostOnce ==
    (pc = "buildings" /\ handler = "done") =>
        \A i, j \in 1..Len(industrial_buildings) :
            /\ industrial_buildings[i].way = industrial_buildings[j].way
            /\ ~HasIndustrialBuildingTag(industrial_buildings[i].way)
            => i = j

\* an industrial-tagged building inside an industrial zone, after the passes
IndustrialBuildingInIndustrialZone ==
    /\ pc = "buildings"
    /\ handler = "done"
    /\ \E i, j \in 1..Len(ways) :
          /\ HasIndustrialBuildingTag(i)
          /\ IsZone(j, "industrial")
          /\ way_is_in_zone(ways[i], Polygon(ways[j].nodes)) = "true"

-----------------------------------------------------------------------------
(* IndustrialFootprintInCatchment.apply_to: the value and the bounds *)

\* apply_to has been called and has returned
AppliedTo == pc = "footprint" /\ buildings_calls # <<>>

\* the sum of f(j) over the footprints j of S
RECURSIVE SumOver(_, _)
SumOver(S, f) ==
    IF S = {} THEN 0
    ELSE LET j == CHOOSE k \in S : TRUE IN f[j] + SumOver(S \ {j}, f)

\* the footprints that lie within the geometry g
ContainedIn(g) == { j \in 1..Len(osm_buildings) : Within(osm_buildings[j], g) }

\* C16 as stated: after apply_to the value of a cell is the sum of the areas
\* of the footprints contained in the cell's catchment geometry.
C16_FootprintIsSumOfContainedAreas ==
    AppliedTo =>
        \A i \in 1..Len(grid_data) :
            grid_data[i].industrial_footprint =
                SumOver(ContainedIn(grid_data[i].catchment),
                        [j \in 1..Len(osm_buildings) |-> Area(osm_buildings[j])])

\* C16 with the parts counted: after apply_to the value of a cell is the sum,
\* over the footprints, of the area of the part of the footprint inside the
\* cell's catchment geometry: the whole area of a footprint contained in it.
C16_FootprintIsSumOfAreasInsideCatchment ==
    AppliedTo =>
        \A i \in 1..Len(grid_data) :
            /\ grid_data[i].catchment = catchment_results[grid_data[i].GRD_ID]
            /\ grid_data[i].industrial_footprint =
                 SumOver(1..Len(osm_buildings),
                         [j \in 1..Len(osm_buildings) |->
                            LET g == grid_data[i].catchment
                                b == osm_buildings[j]
                                w == Min(g[3], b[3]) - Max(g[1], b[1])
                                h == Min(g[4], b[4]) - Max(g[2], b[2])
                            IN  IF w > 0 /\ h > 0 THEN w * h ELSE 0])
            /\ (\A j \in 1..Len(osm_buildings) :
                    \/ Within(osm_buildings[j], grid_data[i].catchment)
                    \/ ~Overlaps(osm_buildings[j], grid_data[i].catchment))
               => grid_data[i].industrial_footprint =
                    SumOver(ContainedIn(grid_data[i].catchment),
                            [j \in 1..Len(osm_buildings) |-> Area(osm_buildings[j])])

\* footprints of area 1 and 0.5 in the catchment (0,0)-(4,4) give the cell 1.5
C16_Witness ==
    /\ AppliedTo
    /\ osm_buildings = << <<4, 4, 6, 6>>, <<4, 6, 6, 7>> >>
    /\ Len(grid_data) = 1
    /\ grid_data[1].catchment = <<0, 0, 8, 8>>
    /\ grid_data[1].industrial_footprint = 6
    /\ fp_column = <<"industrial_footprint", "20min_drive">>

\* the total bounds of boxes, in the coordinates they are given in
BoxesBounds(boxes) ==
    <<SeqMin([i \in 1..Len(boxes) |-> boxes[i][1]]),
      SeqMin([i \in 1..Len(boxes) |-> boxes[i][2]]),
      SeqMax([i \in 1..Len(boxes) |-> boxes[i][3]]),
      SeqMax([i \in 1..Len(boxes) |-> boxes[i][4]])>>

\* C18 as stated: apply_to asks for the buildings of the bounding box that is
\* the total bounds of the grid's catchment geometries.
C18_BoundsAreCatchmentTotalBounds ==
    AppliedTo =>
        /\ Len(buildings_calls) = 1
        /\ buildings_calls[1].bounds = BoxesBounds(catchment_results)

\* C18 with the CRS: apply_to asks once for the buildings, with the total
\* bounds of the catchment geometries taken after their conversion to
\* EPSG:4326; for a grid in EPSG:4326 these are the total bounds of the
\* catchment geometries as given, whatever the cell geometries are.
C18_BoundsAreCatchmentTotalBoundsIn4326 ==
    AppliedTo =>
        /\ Len(buildings_calls) = 1
        /\ buildings_calls[1].crs = grid_crs
        /\ buildings_calls[1].bounds =
              total_bounds(to_crs(catchment_results, grid_crs, 4326))
        /\ grid_crs = 4326 =>
              buildings_calls[1].bounds = BoxesBounds(catchment_results)

\* a grid in EPSG:4326 with the catchments (0,0)-(4,4) and (0,0)-(3,5): the
\* bounds asked for are (0, 0, 4, 5), those of the cells are (0, 0, 4, 2)
C18_Witness ==
    /\ AppliedTo
    /\ grid_crs = 4326
    /\ catchment_results = << <<0, 0, 8, 8>>, <<0, 0, 6, 10>> >>
    /\ buildings_calls[1].bounds = <<0, 0, 8, 10>>
    /\ BoxesBounds([i \in 1..Len(grid_before) |-> grid_before[i].geometry])
          = <<0, 0, 8, 4>>

-----------------------------------------------------------------------------
(* IndustrialFootprintInCatchment.apply_to: the cells of the grid *)

\* the cell IDs of a frame
CellIds(d) == { d[i].GRD_ID : i \in 1..Len(d) }

\* C21: apply_to never removes a cell: the cell IDs of grid.data after the
\* call are the cell IDs before it, also for a cell whose catchment overlaps
\* no footprint.
C21_ApplyToKeepsEveryCell ==
    AppliedTo => CellIds(grid_data) = CellIds(grid_before)

\* apply_to adds no cell and keeps, in their order, exactly the cells whose
\* catchment overlaps a footprint
ApplyToKeepsCellsWithFootprints ==
    AppliedTo =>
        /\ CellIds(grid_data) =
              { i \in CellIds(grid_before) :
                  \E j \in 1..Len(osm_buildings) :
                      Overlaps(catchment_results[i], osm_buildings[j]) }
        /\ \A i, k \in 1..Len(grid_data) :
              i < k => grid_data[i].GRD_ID < grid_data[k].GRD_ID

\* a grid of one cell whose catchment overlaps no footprint, after apply_to
CellWithoutFootprint ==
    /\ AppliedTo
    /\ Len(grid_before) = 1
    /\ \A j \in 1..Len(osm_buildings) :
          ~Overlaps(catchment_results[1], osm_buildings[j])

=============================================================================
